---- MODULE Spec2Model ----
(***************************************************************************)
(* Factory-to-Kimi proxy (src/factory-kimi-proxy.ts): the front door, the  *)
(* translated endpoint, the pass-through router and the streaming          *)
(* re-framer (handleStreamingResponse); and of the enhancer plugin          *)
(* (src/unnamed/part_000) the todo enforcer hooks with their session store *)
(* (src/src/utils/sessionStore.ts), the model resolution of the config     *)
(* hook and the build-mode hint of the message.updated hook.               *)
(*                                                                         *)
(* Byte streams are sequences of symbols.  A symbol is one character       *)
(* ("d", "a", "t", ":", " ", "LF" for the line feed), one byte of a        *)
(* two-byte UTF-8 character ("C3" "A9" encode the character "e'"), or one  *)
(* indivisible lexeme of a JSON payload ("{", "}", "null", "[DONE]", a     *)
(* field of a stream frame, a run of text).  A read may cut the stream     *)
(* between any two symbols.                                                *)
(***************************************************************************)
EXTENDS Integers, Sequences, FiniteSets, TLC

\* ------------------------------------------------------------ bounds
\* Longest enumerated backend stream, in lines.
MaxLines == 2
\* Largest chunk, in symbols, a read delivers while caller and backend
\* interleave with the re-framer.
MaxChunk == 3

\* ------------------------------------------------------------ alphabet
LF == "LF"
\* U+FFFD, what the decoder substitutes for a malformed byte sequence.
FFFD == "FFFD"
EAcute == "e'"
LeadByte == "C3"
ContByte == "A9"
\* "data: ", the six characters a data-bearing line starts with.
DataPrefix == <<"d", "a", "t", "a", ":", " ">>
DoneSentinel == <<"[DONE]">>
TextRuns == {"He", "llo", "_world", EAcute, FFFD}
FieldLexemes == {"id", "ch", "dl", "i0", "i1", "c", "fs", "fl", "u1"}

\* ------------------------------------------------------------ sequences
StartsWith(s, p) == Len(s) >= Len(p) /\ SubSeq(s, 1, Len(p)) = p

Slice(s, n) == SubSeq(s, n + 1, Len(s))

Has(s, x) == \E i \in 1..Len(s) : s[i] = x

\* ------------------------------------------------------------ TextDecoder
\* The UTF-8 decoder over the bytes s (the bytes held back from the previous
\* call followed by the chunk): what byte i contributes to the text.  The
\* lead byte of a complete character contributes at its continuation byte; a
\* lead byte followed by anything else and a continuation byte without lead
\* are malformed and become U+FFFD; a lead byte at the very end is held back
\* (flush = FALSE) or malformed (flush = TRUE).
Skip == "SKIP"
DecodeAt(s, i, flush) ==
    IF s[i] = LeadByte
    THEN IF i = Len(s) THEN (IF flush THEN FFFD ELSE Skip)
         ELSE IF s[i + 1] = ContByte THEN Skip ELSE FFFD
    ELSE IF s[i] = ContByte
         THEN IF i > 1 /\ s[i - 1] = LeadByte THEN EAcute ELSE FFFD
         ELSE s[i]

DecodeText(s, flush) ==
    SelectSeq([i \in 1..Len(s) |-> DecodeAt(s, i, flush)], LAMBDA c : c # Skip)

\* Faulty variant: the stream option is left out, every chunk is decoded on
\* its own.
DecodeStreamPerChunk(pend, bytes) ==
    [text |-> DecodeText(bytes, TRUE), pend |-> <<>>]

\* decoder.decode(value, { stream: true }): an incomplete character at the
\* end of the chunk is kept for the next call.
DecodeStream(pend, bytes) ==
    LET s == pend \o bytes
    IN  [text |-> DecodeText(s, FALSE),
         pend |-> IF s # <<>> /\ s[Len(s)] = LeadByte THEN <<LeadByte>> ELSE <<>>]

\* A decode of the whole body at once (Body.text()): an incomplete character
\* at the end becomes U+FFFD.
DecodeWhole(bytes) == DecodeText(bytes, TRUE)

\* TextEncoder / the Response constructor: text to UTF-8 bytes.
EncodeChar(c) ==
    IF c = EAcute THEN <<LeadByte, ContByte>>
    ELSE IF c = FFFD THEN <<"EF", "BF", "BD">>
    ELSE <<c>>

EncodeText(t) ==
    LET run[i \in 0..Len(t)] ==
            IF i = 0 THEN <<>> ELSE run[i - 1] \o EncodeChar(t[i])
    IN  run[Len(t)]

\* ------------------------------------------------------------ split("\n")
\* The pieces between the line feeds of t, in order; one more than there are
\* line feeds.
SplitLF(t) ==
    LET feeds == {i \in 1..Len(t) : t[i] = LF}
        n == Cardinality(feeds) + 1
        at(k) == IF k = 0 THEN 0
                 ELSE IF k = n THEN Len(t) + 1
                 ELSE CHOOSE i \in feeds : Cardinality({j \in feeds : j < i}) = k - 1
    IN  [k \in 1..n |-> SubSeq(t, at(k - 1) + 1, at(k) - 1)]

\* Faulty variant: the first piece is kept instead of the last.
PopTailFirst(pieces) == pieces[1]

\* lines.pop() || "": the last piece is the unterminated tail.
PopTail(pieces) == pieces[Len(pieces)]
CompleteLines(pieces) == SubSeq(pieces, 1, Len(pieces) - 1)

\* ------------------------------------------------------------ JSON.parse
\* The members of a frame are written flat: "ch" choices[0] is present, "dl"
\* it has a delta, "i0"/"i1" its index, "c" delta.content, "fs"/"fl" the
\* finish_reason stop/length, "u1" usage.completion_tokens, "id" chunk.id.
\* A payload decodes as the value null, or as an object "{" fields "}" whose
\* fields are frame fields, the field "c" (delta.content) being followed by
\* its text; anything else is a SyntaxError.
FieldsOK(m) ==
    \A i \in 1..Len(m) :
        \/ m[i] \in FieldLexemes
        \/ m[i] \in TextRuns /\ i > 1 /\ m[i - 1] \in TextRuns \cup {"c"}

\* The text of delta.content: the text following the last "c".
ContentOf(m) ==
    IF ~Has(m, "c") THEN <<>>
    ELSE LET i == CHOOSE k \in 1..Len(m) : m[k] = "c" /\ \A j \in (k + 1)..Len(m) : m[j] # "c"
             n == CHOOSE k \in i..Len(m) :
                      /\ \A j \in (i + 1)..k : m[j] \in TextRuns
                      /\ (k = Len(m) \/ m[k + 1] \notin TextRuns)
         IN  SubSeq(m, i + 1, n)

ParseJSON(data) ==
    IF data = <<"null">> THEN [kind |-> "null"]
    ELSE IF Len(data) >= 2 /\ data[1] = "{" /\ data[Len(data)] = "}"
            /\ FieldsOK(SubSeq(data, 2, Len(data) - 1))
         THEN LET m == SubSeq(data, 2, Len(data) - 1)
              IN  [kind |-> "object",
                   id |-> Has(m, "id"),
                   choice |-> Has(m, "ch"),
                   delta |-> Has(m, "dl"),
                   index |-> IF Has(m, "i0") THEN 0 ELSE IF Has(m, "i1") THEN 1 ELSE -1,
                   content |-> ContentOf(m),
                   finish_reason |-> IF Has(m, "fs") THEN "stop"
                                     ELSE IF Has(m, "fl") THEN "length" ELSE "none",
                   completion_tokens |-> IF Has(m, "u1") THEN 1 ELSE 0]
         ELSE [kind |-> "SyntaxError"]

\* ------------------------------------------------------------ events
Event(type, index, text, id, reason, tokens) ==
    [type |-> type, index |-> index, text |-> text, id |-> id,
     stop_reason |-> reason, output_tokens |-> tokens]

MessageStop == Event("message_stop", 0, <<>>, "none", "none", 0)
MessageStart(id) == Event("message_start", 0, <<>>, id, "null", 0)
ContentBlockDelta(text) == Event("content_block_delta", 0, text, "none", "none", 0)
MessageDelta(reason, tokens) == Event("message_delta", 0, <<>>, "none", reason, tokens)

\* Faulty variant: the length reason is given a name of its own.
MapStopReasonLength(fr) ==
    IF fr = "stop" THEN "end_turn" ELSE IF fr = "length" THEN "max_tokens" ELSE "null"

\* finish_reason === "stop" ? "end_turn" : null
MapStopReason(fr) == IF fr = "stop" THEN "end_turn" ELSE "null"

\* convertOpenAIStreamChunkToAnthropic: the events (none or one) a decoded
\* frame translates to; threw when the classifier raises a TypeError.
\* "msg_now" is the id built from Date.now() when the frame carries none.
ConvertChunk(chunk) ==
    IF chunk.kind = "null" THEN [threw |-> TRUE, events |-> <<>>]
    ELSE IF ~chunk.choice THEN [threw |-> FALSE, events |-> <<>>]
    ELSE IF ~chunk.delta THEN [threw |-> FALSE, events |-> <<>>]
    ELSE IF chunk.content # <<>>
         THEN [threw |-> FALSE, events |-> <<ContentBlockDelta(chunk.content)>>]
    ELSE IF chunk.index = 0 /\ chunk.finish_reason = "none"
         THEN [threw |-> FALSE,
               events |-> <<MessageStart(IF chunk.id THEN "chunk.id" ELSE "msg_now")>>]
    ELSE IF chunk.finish_reason # "none"
         THEN [threw |-> FALSE,
               events |-> <<MessageDelta(MapStopReason(chunk.finish_reason),
                                         chunk.completion_tokens)>>]
    ELSE [threw |-> FALSE, events |-> <<>>]

\* ------------------------------------------------------------ re-framer
PrefixLen == 6

\* Faulty variant: no try block around the frame; its exceptions leave the
\* loop.
TryFrameUncaught(data, canEnqueue) ==
    LET chunk == ParseJSON(data)
    IN  IF chunk.kind = "SyntaxError" THEN [events |-> <<>>, threw |-> TRUE]
        ELSE LET r == ConvertChunk(chunk)
             IN  IF r.threw THEN [events |-> <<>>, threw |-> TRUE]
                 ELSE IF r.events # <<>> /\ ~canEnqueue
                      THEN [events |-> <<>>, threw |-> TRUE]
                      ELSE [events |-> r.events, threw |-> FALSE]

\* The try block around JSON.parse, the classifier and controller.enqueue:
\* a SyntaxError, a TypeError of the classifier and the TypeError enqueue
\* raises on a stream that is no longer readable are all caught and logged.
TryFrame(data, canEnqueue) ==
    LET chunk == ParseJSON(data)
    IN  IF chunk.kind = "SyntaxError" THEN [events |-> <<>>, threw |-> FALSE]
        ELSE LET r == ConvertChunk(chunk)
             IN  IF r.threw \/ ~canEnqueue THEN [events |-> <<>>, threw |-> FALSE]
                 ELSE [events |-> r.events, threw |-> FALSE]

\* One complete line of the for loop: the events it enqueues, and whether it
\* leaves the loop by an exception (enqueue of message_stop on a stream that
\* is no longer readable is outside the inner try).
ProcessLine(line, canEnqueue) ==
    IF StartsWith(line, DataPrefix)
    THEN LET data == Slice(line, PrefixLen)
         IN  IF data = DoneSentinel
             THEN IF canEnqueue THEN [events |-> <<MessageStop>>, threw |-> FALSE]
                  ELSE [events |-> <<>>, threw |-> TRUE]
             ELSE TryFrame(data, canEnqueue)
    ELSE [events |-> <<>>, threw |-> FALSE]

\* Faulty variant: the lines of a read are walked from the last to the first.
ProcessLinesLastFirst(lines, canEnqueue) ==
    LET n == Len(lines)
        run[i \in 0..n] ==
            IF i = 0 THEN [events |-> <<>>, threw |-> FALSE]
            ELSE IF run[i - 1].threw THEN run[i - 1]
            ELSE LET r == ProcessLine(lines[n + 1 - i], canEnqueue)
                 IN  [events |-> run[i - 1].events \o r.events, threw |-> r.threw]
    IN  run[n]

RECURSIVE ProcessLines(_, _)
ProcessLines(lines, canEnqueue) ==
    IF lines = <<>> THEN [events |-> <<>>, threw |-> FALSE]
    ELSE LET r == ProcessLine(Head(lines), canEnqueue)
         IN  IF r.threw THEN r
             ELSE LET rest == ProcessLines(Tail(lines), canEnqueue)
                  IN  [events |-> r.events \o rest.events, threw |-> rest.threw]

\* After the loop: the remaining buffer, then the final message_stop.
FlushBuffer(buf, canEnqueue) ==
    LET last == IF StartsWith(buf, DataPrefix) /\ Slice(buf, PrefixLen) # DoneSentinel
                THEN TryFrame(Slice(buf, PrefixLen), canEnqueue)
                ELSE [events |-> <<>>, threw |-> FALSE]
    IN  IF last.threw \/ ~canEnqueue THEN [events |-> last.events, threw |-> TRUE]
        ELSE [events |-> Append(last.events, MessageStop), threw |-> FALSE]

\* ------------------------------------------------------------ backend streams
DataLine(payload) == DataPrefix \o payload

\* The lines a backend event stream is made of (without their terminator).
LStart == DataLine(<<"{", "ch", "dl", "i0", "}">>)
LStartId == DataLine(<<"{", "id", "ch", "dl", "i0", "}">>)
LHe == DataLine(<<"{", "ch", "dl", "i0", "c", "He", "}">>)
Lllo == DataLine(<<"{", "ch", "dl", "i0", "c", "llo", "}">>)
LWorld == DataLine(<<"{", "ch", "dl", "i0", "c", "_world", "}">>)
LStop == DataLine(<<"{", "ch", "dl", "i0", "fs", "}">>)
LLength == DataLine(<<"{", "ch", "dl", "i0", "fl", "u1", "}">>)
LTextStop == DataLine(<<"{", "ch", "dl", "i0", "c", "He", "fs", "}">>)
LIndex1 == DataLine(<<"{", "ch", "dl", "i1", "c", "llo", "}">>)
LEmptyContent == DataLine(<<"{", "ch", "dl", "i0", "c", "}">>)
LNoChoice == DataLine(<<"{", "}">>)
LNull == DataLine(<<"null">>)
LTruncated == DataLine(<<"{", "ch", "dl">>)
LAccent == DataLine(<<"{", "ch", "dl", "i0", "c", LeadByte, ContByte, "}">>)
LBadUtf8 == DataLine(<<"{", "ch", "dl", "i0", "c", LeadByte, "}">>)
LDone == DataLine(DoneSentinel)
LComment == <<":", " ">>
LBlank == <<>>
LNoSpace == <<"d", "a", "t", "a", ":", "{", "ch", "dl", "i0", "}">>

Catalogue ==
    {LStart, LHe, LStop, LNull, LTruncated, LAccent, LDone, LBlank}

RECURSIVE JoinLines(_, _)
\* The bytes of a stream: every line but the last is followed by a line feed,
\* the last one only when the stream ends with a terminator.
JoinLines(lines, terminated) ==
    IF lines = <<>> THEN <<>>
    ELSE IF Len(lines) = 1
         THEN IF terminated THEN Append(Head(lines), LF) ELSE Head(lines)
         ELSE Append(Head(lines), LF) \o JoinLines(Tail(lines), terminated)

\* The stream of the hello-world exchange, as an event stream delivers it.
HelloLines == <<LStart, LHe, Lllo, LWorld, LStop, LDone>>

Scenarios ==
    { JoinLines(HelloLines, TRUE),
      JoinLines(HelloLines, FALSE),
      JoinLines(<<LStartId, LTextStop, LBlank, LDone, LBlank>>, TRUE),
      JoinLines(<<LHe, LComment, LIndex1, LLength>>, FALSE),
      JoinLines(<<LEmptyContent, LNoChoice, LNoSpace, LBadUtf8>>, TRUE),
      JoinLines(<<LDone, LHe, LBadUtf8>>, FALSE) }

\* Streams of a connection whose caller pulls, disconnects or whose backend
\* fails while the re-framer runs.
LiveInputs ==
    { <<>>,
      JoinLines(<<LStart, LHe, LDone>>, TRUE),
      JoinLines(<<LHe, LTruncated, LStop>>, FALSE) }

StreamInputs ==
    Scenarios \cup
    { JoinLines(ls, t) : ls \in UNION { [1..n -> Catalogue] : n \in 0..MaxLines },
                         t \in BOOLEAN }

\* ------------------------------------------------------------ requests
Methods == {"OPTIONS", "GET", "POST"}
HealthPath == <<"/health">>
ModelsPaths == {<<"/v1", "/models">>, <<"/models">>}
MessagesPaths == {<<"/v1", "/messages">>, <<"/v1", "/v1", "/messages">>}
Paths == {HealthPath} \cup ModelsPaths \cup MessagesPaths \cup {<<"/v1", "/chat">>}

\* What request.json() makes of the inbound body: a SyntaxError, the value
\* null, or an object (of which the stream member matters to the routing).
\* "badshape" is an object the request translator throws on (a message whose
\* content is neither a string nor a list).
Body(kind, stream) == [kind |-> kind, stream |-> stream]
Bodies == {Body("undecodable", FALSE), Body("null", FALSE), Body("badshape", FALSE),
           Body("object", FALSE), Body("object", TRUE)}

\* Headers are sets of <<name, value>> pairs with one value per name.
\* { ...a, ...b }: the members of b, and those of a that b does not name.
Merge(a, b) == b \cup {p \in a : \A q \in b : q[1] # p[1]}

CorsHeaders ==
    { <<"Access-Control-Allow-Origin", "*">>,
      <<"Access-Control-Allow-Methods", "GET, POST, PUT, PATCH, DELETE, OPTIONS">>,
      <<"Access-Control-Allow-Headers", "*">> }
JsonHeaders == Merge(CorsHeaders, {<<"Content-Type", "application/json">>})
StreamHeaders ==
    Merge(CorsHeaders, { <<"Content-Type", "text/event-stream">>,
                         <<"Cache-Control", "no-cache">>,
                         <<"Connection", "keep-alive">> })

\* The headers of both outbound calls: the configured credential and three
\* fixed members.
KimiHeaders ==
    { <<"Authorization", "Bearer KIMI_API_KEY">>,
      <<"Content-Type", "application/json">>,
      <<"User-Agent", "claude-code/2.0">>,
      <<"Host", "api.kimi.com">> }

\* The headers a caller sends: its own credential, and its own members.
CallerHeaders ==
    { { <<"Authorization", "Bearer caller">>, <<"Content-Type", "application/json">> },
      { <<"Authorization", "Bearer caller">>, <<"Content-Type", "text/plain">>,
        <<"X-Trace", "1">> } }

\* The headers of the backend's answer to a pass-through call.
BackendHeaders ==
    { { <<"Content-Type", "text/plain">> },
      { <<"Content-Type", "application/json">>,
        <<"Access-Control-Allow-Origin", "https://kimi.com">> } }

\* A GET or OPTIONS request carries no body: decoding it fails.
Requests ==
    { r \in [method : Methods, path : Paths, headers : CallerHeaders, body : Bodies] :
        r.method # "POST" => r.body.kind = "undecodable" }

Statuses == {200, 400, 500}
IsOk(status) == status >= 200 /\ status <= 299

\* Bodies of backend failure responses, as bytes.
ErrBodies == {<<>>, <<"{", "}">>, <<LeadByte, ContByte>>, <<"{", LeadByte>>}

\* What kimiResponse.json() makes of a success body.
KimiData(kind, content, fr) == [kind |-> kind, content |-> content, finish_reason |-> fr]
KimiDatas == {KimiData("undecodable", <<>>, "none"), KimiData("null", <<>>, "none"),
              KimiData("object", <<"He">>, "stop"), KimiData("object", <<>>, "length")}

\* ------------------------------------------------------------ translators
MaxMessages == 2
MaxSegments == 2
MaxChoices == 2

\* Strings are sequences of text runs; <<>> is the empty string.
Texts == {<<>>, <<"He">>, <<"llo">>}

\* A member of an object that may be absent.
Given(v) == [present |-> TRUE, value |-> v]
Absent == [present |-> FALSE, value |-> 0]

\* Array.prototype.join(sep)
JoinWith(texts, sep) ==
    LET run[i \in 0..Len(texts)] ==
            IF i = 0 THEN <<>>
            ELSE IF i = 1 THEN texts[1]
            ELSE run[i - 1] \o sep \o texts[i]
    IN  run[Len(texts)]

\* The system member of a caller request: absent, a string (segs holds it),
\* a list of text segments, or a number.
System(kind, segs) == [kind |-> kind, segs |-> segs]
NoSystem == System("absent", <<>>)
Systems ==
    {NoSystem, System("number", <<>>)}
    \cup {System("string", <<t>>) : t \in Texts}
    \cup {System("list", segs) : segs \in UNION {[1..n -> Texts] : n \in 0..MaxSegments}}

\* The content member of a message: a string, a list of content blocks, or
\* a number.  A block has a text, or embedded data under source.data, or
\* neither (<<>>).
Block(text, data) == [text |-> text, data |-> data]
Content(kind, text, blocks) == [kind |-> kind, text |-> text, blocks |-> blocks]
StringContent(text) == Content("string", text, <<>>)
Blocks == {Block(<<"He">>, <<>>), Block(<<"llo">>, <<>>), Block(<<>>, <<"_world">>),
           Block(<<>>, <<>>)}
Contents ==
    {Content("number", <<>>, <<>>)}
    \cup {StringContent(t) : t \in Texts}
    \cup {Content("blocks", <<>>, bs) : bs \in UNION {[1..n -> Blocks] : n \in 0..2}}

\* "none": the message has no role member.
Roles == {"user", "assistant", "system", "tool", "none"}
Message(role, content) == [role |-> role, content |-> content]

\* The messages member: absent, or a list.
Messages(kind, items) == [kind |-> kind, items |-> items]

\* The stream member: the booleans, absent, or the number 1.
StreamFlags == {"true", "false", "absent", "1"}

AnthropicBody(system, messages, model, max_tokens, temperature, top_p, stream) ==
    [system |-> system, messages |-> messages, model |-> model,
     max_tokens |-> max_tokens, temperature |-> temperature, top_p |-> top_p,
     stream |-> stream]

\* One message, no system instruction, no generation parameters.
PlainMessages == Messages("list", <<Message("user", StringContent(<<"He">>))>>)
PlainBody ==
    AnthropicBody(NoSystem, PlainMessages, "claude", Absent, Absent, Absent, "absent")

\* Caller requests: every system instruction with every list of roles, every
\* content, every combination of generation parameters (temperature and
\* top_p in tenths).
AnthropicBodies ==
    { [PlainBody EXCEPT !.system = sys, !.messages = Messages("list", ms)] :
        sys \in Systems,
        ms \in UNION { [1..n -> {Message(r, StringContent(<<"llo">>)) : r \in Roles}] :
                       n \in 0..MaxMessages } }
    \cup { [PlainBody EXCEPT !.system = sys, !.messages = Messages("absent", <<>>)] :
             sys \in Systems }
    \cup { [PlainBody EXCEPT !.messages = Messages("list", <<Message(r, c)>>)] :
             r \in {"user", "assistant"}, c \in Contents }
    \cup { [PlainBody EXCEPT !.system = sys,
                             !.messages = Messages("list", <<Message("user", c1),
                                                             Message("assistant", c2)>>)] :
             sys \in {NoSystem, System("string", <<<<"He">>>>)},
             c1 \in Contents, c2 \in Contents }
    \cup { AnthropicBody(NoSystem, PlainMessages, model, mt, temp, tp, st) :
             model \in {"claude", "", "undefined"},
             mt \in {Absent, Given(0), Given(100)},
             temp \in {Absent, Given(0), Given(10)},
             tp \in {Absent, Given(0), Given(5)},
             st \in StreamFlags }

DefaultMaxTokens == 8192
\* 0.7 and 1, in tenths
DefaultTemperature == 7
DefaultTopP == 10

OpenAIBody(model, messages, max_tokens, temperature, top_p, stream) ==
    [threw |-> FALSE, model |-> model, messages |-> messages, max_tokens |-> max_tokens,
     temperature |-> temperature, top_p |-> top_p, stream |-> stream]
\* The translator raised a TypeError: no body.
NoOpenAIBody == [OpenAIBody("", <<>>, 0, 0, 0, FALSE) EXCEPT !.threw = TRUE]

\* if (anthropicBody.system): the empty string is falsy, like absence.
HasSystem(system) ==
    /\ system.kind # "absent"
    /\ system.kind = "string" => system.segs[1] # <<>>

\* Faulty variant: the segments are joined with nothing between them.
SystemContentNoSeparator(system) ==
    IF system.kind = "string" THEN system.segs[1]
    ELSE JoinWith(system.segs, <<>>)

\* The string itself, or system.map(s => s.text).join("\n").
SystemContent(system) ==
    IF system.kind = "string" THEN system.segs[1]
    ELSE JoinWith(system.segs, <<LF>>)

\* Faulty variant: a block without text contributes nothing.
FlattenContentTextOnly(content) ==
    IF content.kind = "string" THEN content.text
    ELSE JoinWith([i \in 1..Len(content.blocks) |-> content.blocks[i].text], <<>>)

\* msg.content, or msg.content.map(c => c.text || c.source?.data || "").join("")
FlattenContent(content) ==
    IF content.kind = "string" THEN content.text
    ELSE JoinWith([i \in 1..Len(content.blocks) |->
                      IF content.blocks[i].text # <<>> THEN content.blocks[i].text
                      ELSE content.blocks[i].data],
                  <<>>)

\* Faulty variant: the caller's role is kept.
MapRoleKeep(role) == role

\* msg.role === "assistant" ? "assistant" : "user"
MapRole(role) == IF role = "assistant" THEN "assistant" ELSE "user"

\* a || b for a number a: zero is falsy, like absence.
OrDefault(member, default) ==
    IF member.present /\ member.value # 0 THEN member.value ELSE default

\* a ?? b
Coalesce(member, default) == IF member.present THEN member.value ELSE default

\* convertAnthropicToOpenAI in full.  map() of a number is a TypeError.
convertAnthropicToOpenAI(anthropicBody, stream) ==
    LET items == IF anthropicBody.messages.kind = "absent" THEN <<>>
                 ELSE anthropicBody.messages.items
        systemMessages ==
            IF HasSystem(anthropicBody.system)
            THEN <<[role |-> "system", content |-> SystemContent(anthropicBody.system)]>>
            ELSE <<>>
    IN  IF \/ anthropicBody.system.kind = "number"
           \/ \E i \in 1..Len(items) : items[i].content.kind = "number"
        THEN NoOpenAIBody
        ELSE OpenAIBody(
                IF anthropicBody.model \in {"", "undefined"} THEN "kimi-for-coding"
                ELSE anthropicBody.model,
                systemMessages \o
                    [i \in 1..Len(items) |->
                        [role |-> MapRole(items[i].role),
                         content |-> FlattenContent(items[i].content)]],
                OrDefault(anthropicBody.max_tokens, DefaultMaxTokens),
                Coalesce(anthropicBody.temperature, DefaultTemperature),
                Coalesce(anthropicBody.top_p, DefaultTopP),
                stream)

\* A choice of a backend response: message.content (absent, or a string)
\* and finish_reason ("none": absent).
FinishReasons == {"stop", "length", "tool_calls", "content_filter", "none"}
Choice(hasContent, content, finish_reason) ==
    [hasContent |-> hasContent, content |-> content, finish_reason |-> finish_reason]
Choices ==
    {Choice(FALSE, <<>>, fr) : fr \in FinishReasons}
    \cup {Choice(TRUE, t, fr) : t \in Texts, fr \in FinishReasons}

\* A decoded backend response; usage may be absent.
OpenAIData(choices, usage, prompt_tokens, completion_tokens) ==
    [choices |-> choices, usage |-> usage, prompt_tokens |-> prompt_tokens,
     completion_tokens |-> completion_tokens]
OpenAIDatas ==
    { OpenAIData(cs, u, IF u THEN 3 ELSE 0, IF u THEN 5 ELSE 0) :
        cs \in UNION {[1..n -> Choices] : n \in 0..MaxChoices}, u \in BOOLEAN }

AnthropicResponse(model, content, stop_reason, input_tokens, output_tokens) ==
    [id |-> "msg_now", type |-> "message", role |-> "assistant", model |-> model,
     content |-> content, stop_reason |-> stop_reason, input_tokens |-> input_tokens,
     output_tokens |-> output_tokens]
NoAnthropicResponse == AnthropicResponse("", <<>>, "none", 0, 0)

\* Faulty variant: the last of the choices is taken.
ChosenLast(choices) ==
    IF choices = <<>> THEN Choice(FALSE, <<>>, "none") ELSE choices[Len(choices)]

\* openaiData.choices?.[0]; every member of an absent choice is absent.
Chosen(choices) ==
    IF choices = <<>> THEN Choice(FALSE, <<>>, "none") ELSE choices[1]

\* convertOpenAIToAnthropic in full.
convertOpenAIToAnthropic(openaiData, originalBody) ==
    LET choice == Chosen(openaiData.choices)
    IN  AnthropicResponse(
            originalBody.model,
            <<[type |-> "text", text |-> IF choice.hasContent THEN choice.content ELSE <<>>]>>,
            MapStopReason(choice.finish_reason),
            IF openaiData.usage THEN openaiData.prompt_tokens ELSE 0,
            IF openaiData.usage THEN openaiData.completion_tokens ELSE 0)

\* Decoded frames, member by member.
Chunks ==
    [kind : {"object"}, id : BOOLEAN, choice : BOOLEAN, delta : BOOLEAN, index : {0, 1},
     content : {<<>>, <<"He">>}, finish_reason : FinishReasons,
     completion_tokens : {0, 1}]
NoChunk ==
    [kind |-> "object", id |-> FALSE, choice |-> FALSE, delta |-> FALSE, index |-> 0,
     content |-> <<>>, finish_reason |-> "none", completion_tokens |-> 0]


\* ------------------------------------------------------------ todo store
\* Times are hours.
MaxClock == 48
TickHours == 24
MaxSessionAge == 24

\* TODO_ENFORCER_AGENTS, and an agent that is not one of them.
EnforcedAgents == {"ultraplan", "strategos"}
Agents == EnforcedAgents \cup {"ask"}

\* The session id a hook event carries ("none": it carries none) and the
\* key it is stored under: input.session?.id || input.sessionId || 'default'.
SessionIds == {"s1", "none"}
SessionKey(id) == IF id = "none" THEN "default" ELSE id

\* The sessions whose events reach the hooks, and the id the events of each
\* carry: those of one session carry an id, those of the other two none.
Sessions == {"A", "B", "C"}
IdOf(session) == IF session = "A" THEN "s1" ELSE "none"
Keys == {SessionKey(id) : id \in SessionIds}

\* What TodoParser.extractTodos finds in a message: no todo, or a list.
Todo(description, status) == [description |-> description, status |-> status]
TodoLists ==
    { <<>>,
      <<Todo("a", "pending")>>,
      <<Todo("a", "completed")>>,
      <<Todo("a", "completed"), Todo("b", "pending")>> }

Entry(todos, lastUpdated, agentName) ==
    [present |-> TRUE, todos |-> todos, lastUpdated |-> lastUpdated,
     agentName |-> agentName]
NoEntry == [present |-> FALSE, todos |-> <<>>, lastUpdated |-> 0, agentName |-> "none"]
EmptyStore == [k \in Keys |-> NoEntry]

\* SessionTodoStore.cleanup
Cleanup(st, t) ==
    [k \in Keys |-> IF st[k].present /\ t - st[k].lastUpdated > MaxSessionAge
                    THEN NoEntry ELSE st[k]]

\* SessionTodoStore.set: cleanup, then the entry is replaced.
StoreSet(st, k, todos, agentName, t) ==
    [Cleanup(st, t) EXCEPT ![k] = Entry(todos, t, agentName)]

\* Faulty variant: the entry stays.
StoreKeep(st, k) == st

\* SessionTodoStore.delete
StoreDelete(st, k) == [st EXCEPT ![k] = NoEntry]

\* SessionTodoStore.getAllPending
GetAllPending(st, k) ==
    IF ~st[k].present THEN <<>>
    ELSE SelectSeq(st[k].todos, LAMBDA t : t.status # "completed")

\* Faulty variant: completed todos are counted too.
CountAll(st, k) == IF ~st[k].present THEN 0 ELSE Len(st[k].todos)

\* SessionTodoStore.countUnfinished
CountUnfinished(st, k) ==
    IF ~st[k].present THEN 0
    ELSE Len(SelectSeq(st[k].todos, LAMBDA t : t.status # "completed"))

\* A hook event, and the output object the host hands to the hook: continue
\* and reason (the number of open todos and their descriptions) are set by
\* stop.requested, todoBlock by message.completed.
Hook(name, agent, session) ==
    [name |-> name, agent |-> agent, origin |-> session, session |-> IdOf(session)]
NoHook == [name |-> "none", agent |-> "none", origin |-> "none", session |-> "none"]
Output(continue, count, open, todoBlock) ==
    [continue |-> continue, reason |-> [count |-> count, open |-> open],
     todoBlock |-> todoBlock]
NoOutput == Output(FALSE, 0, <<>>, FALSE)

\* ------------------------------------------------------------ model resolution
\* A string is a sequence of tokens.  A configured value is absent, the
\* empty string, a string, or (in the agent config only) not a string.
Unset == [kind |-> "unset", text |-> <<>>]
Str(text) == [kind |-> IF text = <<>> THEN "empty" ELSE "string", text |-> text]
NonString == [kind |-> "other", text |-> <<>>]

\* JavaScript truthiness of a configured value.
Truthy(value) == value.kind \in {"string", "other"}

\* VALID_MODEL_PATTERNS: each is ^<provider>\/
Providers == {"opencode", "anthropic", "openai", "google", "mistral", "cohere", "ollama"}
DEFAULT_MODEL == <<"opencode", "/", "kimi-k2.5-free">>

\* VALID_MODEL_PATTERNS.some(pattern => pattern.test(model))
IsValid(text) == Len(text) >= 2 /\ text[1] \in Providers /\ text[2] = "/"

\* Faulty variant: a string is returned as it is.
validateModelLenient(model) == IF model.kind # "string" THEN DEFAULT_MODEL ELSE model.text

validateModel(model) ==
    IF ~Truthy(model) \/ model.kind # "string" THEN DEFAULT_MODEL
    ELSE IF ~IsValid(model.text) THEN DEFAULT_MODEL
    ELSE model.text

\* toUpperCase, token by token.
UpperToken ==
    [t \in {"explore", "context", "code", "deps", "tests", "review", "plan", "strategos",
            "interviewer", "enhancer", "ultraplan", "ask", "subagent", "primary", "-"} |->
        CASE t = "explore" -> "EXPLORE" [] t = "context" -> "CONTEXT" [] t = "code" -> "CODE"
          [] t = "deps" -> "DEPS" [] t = "tests" -> "TESTS" [] t = "review" -> "REVIEW"
          [] t = "plan" -> "PLAN" [] t = "strategos" -> "STRATEGOS"
          [] t = "interviewer" -> "INTERVIEWER" [] t = "enhancer" -> "ENHANCER"
          [] t = "ultraplan" -> "ULTRAPLAN" [] t = "ask" -> "ASK"
          [] t = "subagent" -> "SUBAGENT" [] t = "primary" -> "PRIMARY" [] OTHER -> t]
ToUpperCase(text) == [i \in 1..Len(text) |-> UpperToken[text[i]]]

\* replace(/-/g, '_')
ReplaceDashes(text) == [i \in 1..Len(text) |-> IF text[i] = "-" THEN "_" ELSE text[i]]

\* `ENHANCER_MODEL_${agentName.toUpperCase().replace(/-/g, '_')}`
SpecificVar(agentName) == <<"ENHANCER_MODEL_">> \o ReplaceDashes(ToUpperCase(agentName))
\* `ENHANCER_MODEL_${agentType.toUpperCase()}`
GroupVar(agentType) == <<"ENHANCER_MODEL_">> \o ToUpperCase(<<agentType>>)

\* The configureAgent calls of the config hook, in order.
Agent(name, type) == [name |-> name, type |-> type]
ConfiguredAgents ==
    << Agent(<<"explore", "-", "context">>, "subagent"),
       Agent(<<"explore", "-", "code">>, "subagent"),
       Agent(<<"explore", "-", "deps">>, "subagent"),
       Agent(<<"explore", "-", "tests">>, "subagent"),
       Agent(<<"review", "-", "plan">>, "subagent"),
       Agent(<<"strategos", "-", "interviewer">>, "subagent"),
       Agent(<<"enhancer">>, "primary"),
       Agent(<<"ultraplan">>, "primary"),
       Agent(<<"ask">>, "primary"),
       Agent(<<"strategos">>, "primary") >>
AgentNames == {ConfiguredAgents[i].name : i \in 1..Len(ConfiguredAgents)}
TypeOf(name) == (CHOOSE a \in {ConfiguredAgents[i] : i \in 1..Len(ConfiguredAgents)} :
                    a.name = name).type
EnvVars == {SpecificVar(name) : name \in AgentNames} \cup
           {GroupVar(type) : type \in {"subagent", "primary"}}

\* Values a user may have put in an agent's config and in the environment.
ExistingValues ==
    { Unset, Str(<<>>), NonString,
      Str(<<"anthropic", "/", "claude">>),
      Str(<<"gpt-4">>),
      Str(<<"my", "anthropic", "/", "claude">>) }
SpecificValues ==
    { Unset, Str(<<>>), Str(<<"openai", "/", "gpt-4">>), Str(<<"openai">>) }
GroupValues ==
    { Unset, Str(<<"google", "/", "gemini">>), Str(<<"Google", "/", "gemini">>) }

\* An entry of input.agent.
AgentConfig(model, mode, hidden) ==
    [present |-> TRUE, model |-> model, mode |-> mode, hidden |-> hidden]
NoAgentConfig == [present |-> FALSE, model |-> Unset, mode |-> "none", hidden |-> FALSE]

resolveModel(agentName, agentType, existingConfig, environment) ==
    IF Truthy(existingConfig.model) THEN validateModel(existingConfig.model)
    ELSE IF Truthy(environment[SpecificVar(agentName)])
    THEN validateModel(environment[SpecificVar(agentName)])
    ELSE IF Truthy(environment[GroupVar(agentType)])
    THEN validateModel(environment[GroupVar(agentType)])
    ELSE DEFAULT_MODEL

\* configureAgent(name, type, defaultConfig)
configureAgent(agents, environment, name, type) ==
    [agents EXCEPT ![name] =
        AgentConfig(Str(resolveModel(name, type, agents[name], environment)),
                    IF type = "subagent" THEN "subagent" ELSE "primary",
                    IF type = "subagent" THEN TRUE ELSE agents[name].hidden)]

\* The first n configureAgent calls.
RECURSIVE ConfigureFirst(_, _, _)
ConfigureFirst(agents, environment, n) ==
    IF n = 0 THEN agents
    ELSE configureAgent(ConfigureFirst(agents, environment, n - 1), environment,
                        ConfiguredAgents[n].name, ConfiguredAgents[n].type)

\* ------------------------------------------------------------ response ids
\* Non-streaming calls one process translates, and the milliseconds its
\* clock advances meanwhile.
MaxCalls == 3
MaxMillis == 4

\* `msg_${Date.now()}`
MessageId(t) == <<"msg_", t>>

\* ------------------------------------------------------------ build-mode hint
\* Longest message content, in tokens, before any hint is appended, and the
\* number of message.updated events of one message.
MaxTokens == 2
MaxUpdates == 2

\* A message content is a sequence of tokens: the words the hook looks for,
\* cut where one of them could begin or end, and other text.  "FENCE" is
\* the three backquotes that open a code block.
ContentTokens == {"FENCEmarkdown", "# Task:", "Build", " mode", " Mode", "**", "plan"}

\* String.prototype.includes
Includes(text, pattern) ==
    \E i \in 0..(Len(text) - Len(pattern)) : SubSeq(text, i + 1, i + Len(pattern)) = pattern

\* "\n\n---\n**Next Step**: Copy this entire block and run it in **Build**
\* mode to execute the plan."
Hint ==
    <<"LF", "LF", "---", "LF", "**", "Next Step", "**",
      ": Copy this entire block and run it in ", "**", "Build", "**", " mode",
      " to execute the plan.">>

\* The agents the message.updated hook acts for, and one it does not.
HintAgents == {"enhancer", "ultraplan", "ask", "strategos"}

\* The message.updated hook: the content it leaves in output.content, or
\* the content as it came when the hook returns without writing.
messageUpdated(agentName, content, outputIsObject) ==
    IF agentName \notin HintAgents THEN content
    ELSE IF \/ Includes(content, <<"Build", " mode">>)
            \/ Includes(content, <<"Build", " Mode">>)
    THEN content
    ELSE IF (Includes(content, <<"FENCEmarkdown">>) \/ Includes(content, <<"# Task:">>))
            /\ outputIsObject
    THEN content \o Hint
    ELSE content

\* ------------------------------------------------------------ state
VARIABLES
    req,        \* the inbound request
    pc,         \* where the fetch handler is: idle, awaitKimi, awaitPass, responded
    resp,       \* the response returned to the caller
    calls,      \* the outbound backend calls issued, in order
    kimi,       \* status and body bytes of the backend's answer to the translated call
    pass,       \* status, headers and body bytes of its answer to the pass-through call
    input,      \* the bytes the backend sends on its event stream
    pos,        \* how many of them the reader has delivered
    upstream,   \* the backend stream: none, open, done, errored
    loop,       \* start(controller): none, reading, returned, rejected
    pend,       \* bytes the TextDecoder holds back
    buffer,     \* the LineBuffer
    out,        \* every event enqueued, in order
    queue,      \* events enqueued and not yet taken by the caller
    delivered,  \* events the caller has taken
    ctrl,       \* the outbound stream: none, readable, closing, closed, cancelled
    midLine,    \* history: some read so far ended inside a line or a character
    op,         \* the translator at work: none, request, response, chunk, and *_done
    anthropicBody,      \* the decoded caller request
    openaiBody,         \* the backend request built from it
    openaiData,         \* a decoded backend response
    anthropicResponse,  \* the caller response built from it
    openaiChunk,        \* a decoded frame
    anthropicChunk,     \* the events built from it
    conns,      \* concurrent streaming connections: input, pos, loop, pend, out of each
    buffers,    \* the LineBuffer of each scope a connection's start() runs in
    store,      \* todoStore: the entry of each session key
    now,        \* Date.now(), in hours
    hook,       \* the hook event handled last
    output,     \* the output object of that event, as the hook leaves it
    env,        \* process.env: the value of each ENHANCER_MODEL_ variable
    inputAgent, \* input.agent of the config hook
    millis,     \* Date.now(), in milliseconds since the process started
    responseIds, \* the id of each translated response, in the order of translation
    sessionMessage \* a message of a session: agent, content, whether the host hands
                   \* the hook an output object, message.updated events so far

handlerVars == <<req, pc, resp, calls, kimi, pass>>
streamVars == <<input, pos, upstream, loop, pend, buffer, out, queue, delivered, ctrl,
                midLine>>
translatorVars == <<op, anthropicBody, openaiBody, openaiData, anthropicResponse,
                    openaiChunk, anthropicChunk>>
connVars == <<conns, buffers>>
\* The variables of the specifications that look at one component alone.
enforcerVars == <<store, now, hook, output>>
resolverVars == <<env, inputAgent>>
idVars == <<millis, responseIds>>
hintVars == <<sessionMessage>>
aloneVars == <<translatorVars, connVars, enforcerVars, resolverVars, idVars, hintVars>>
vars == <<req, pc, resp, calls, kimi, pass, input, pos, upstream, loop, pend, buffer, out,
          queue, delivered, ctrl, midLine, op, anthropicBody, openaiBody, openaiData,
          anthropicResponse, openaiChunk, anthropicChunk, conns, buffers, store, now,
          hook, output, env, inputAgent, millis, responseIds,
          sessionMessage>>

NoTranslation == [text |-> <<>>, stop_reason |-> "none"]
\* The headers each kind of response is built with.
HeadersOf(kind) ==
    IF kind = "none" THEN {}
    ELSE IF kind = "preflight" THEN CorsHeaders
    ELSE IF kind = "stream" THEN StreamHeaders
    ELSE JsonHeaders
Response(status, kind, bytes, message, translated) ==
    [status |-> status, kind |-> kind, headers |-> HeadersOf(kind), bytes |-> bytes,
     message |-> message, translated |-> translated]
NoResponse == Response(0, "none", <<>>, "", NoTranslation)
\* data: what json() makes of a success body, once it has been called.
Answer(status, bytes) == [status |-> status, bytes |-> bytes, data |-> "none"]
NoAnswer == Answer(0, <<>>)
PassAnswer(status, headers, bytes) == [status |-> status, headers |-> headers, bytes |-> bytes]
NoPassAnswer == PassAnswer(0, {}, <<>>)

\* No translator is being looked at on its own.
TranslatorsIdle ==
    /\ op = "none"
    /\ anthropicBody = PlainBody
    /\ openaiBody = NoOpenAIBody
    /\ openaiData = OpenAIData(<<>>, FALSE, 0, 0)
    /\ anthropicResponse = NoAnthropicResponse
    /\ openaiChunk = NoChunk
    /\ anthropicChunk = <<>>

\* The connections two streaming requests open at the same time, and the
\* scope the buffer of each is declared in: let buffer = "" is local to
\* start(controller), one per connection.
Connections == {1, 2}
\* Faulty variant: one buffer, declared outside handleStreamingResponse.
SlotShared(c) == 1
Slot(c) == c

Connection(bytes) ==
    [input |-> bytes, pos |-> 0, loop |-> "reading", pend |-> <<>>, out |-> <<>>]

\* No pair of concurrent connections is being looked at.
ConnectionsIdle ==
    /\ conns = [c \in Connections |-> Connection(<<>>)]
    /\ buffers = [c \in Connections |-> <<>>]

\* The plugin has handled no hook event.
EnforcerIdle ==
    /\ store = EmptyStore
    /\ now = 0
    /\ hook = NoHook
    /\ output = NoOutput

\* No message has been written.
HintIdle ==
    sessionMessage = [agent |-> "none", content |-> <<>>, output |-> FALSE, updates |-> 0]

\* The process has translated no response.
IdsIdle ==
    /\ millis = 0
    /\ responseIds = <<>>

\* Nothing is configured and the config hook has not run.
ResolverIdle ==
    /\ env = [v \in EnvVars |-> Unset]
    /\ inputAgent = [name \in AgentNames |-> NoAgentConfig]

Init ==
    /\ TranslatorsIdle
    /\ ConnectionsIdle
    /\ EnforcerIdle
    /\ ResolverIdle
    /\ IdsIdle
    /\ HintIdle
    /\ req \in Requests
    /\ pc = "idle"
    /\ resp = NoResponse
    /\ calls = <<>>
    /\ kimi = NoAnswer
    /\ pass = NoPassAnswer
    /\ input = <<>>
    /\ pos = 0
    /\ upstream = "none"
    /\ loop = "none"
    /\ pend = <<>>
    /\ buffer = <<>>
    /\ out = <<>>
    /\ queue = <<>>
    /\ delivered = <<>>
    /\ ctrl = "none"
    /\ midLine = FALSE

\* ------------------------------------------------------------ fetch handler
\* Faulty variant: the catch answers with the bad-request status.
ProxyErrorBadRequest(message) ==
    Response(400, "proxy_error", <<>>, message, NoTranslation)

\* The catch of the translated endpoint: status 500 and the envelope
\* { error: { message, type: "proxy_error" } }.
ProxyError(message) == Response(500, "proxy_error", <<>>, message, NoTranslation)

Respond(r) ==
    /\ resp' = r
    /\ pc' = "responded"

\* String.prototype.replace(tok, ""): the first occurrence is removed.
RECURSIVE ReplaceFirst(_, _)
ReplaceFirst(path, tok) ==
    IF path = <<>> THEN <<>>
    ELSE IF Head(path) = tok THEN Tail(path)
    ELSE <<Head(path)>> \o ReplaceFirst(Tail(path), tok)

BackendCall(target, method, accept, body) ==
    [target |-> target, method |-> method, accept |-> accept, body |-> body,
     headers |-> IF accept = "none" THEN KimiHeaders
                 ELSE Merge(KimiHeaders, {<<"Accept", accept>>})]

\* Faulty variant: the paths are looked at before the method.
RouteByPath(r) ==
    IF r.path = HealthPath THEN "health"
    ELSE IF r.path \in ModelsPaths THEN "models"
    ELSE IF r.path \in MessagesPaths THEN "messages"
    ELSE IF r.method = "OPTIONS" THEN "preflight"
    ELSE "passthrough"

\* The branch of fetch(request) that answers a request: the method is looked
\* at for OPTIONS only, then the path.
Route(r) ==
    IF r.method = "OPTIONS" THEN "preflight"
    ELSE IF r.path = HealthPath THEN "health"
    ELSE IF r.path \in ModelsPaths THEN "models"
    ELSE IF r.path \in MessagesPaths THEN "messages"
    ELSE "passthrough"

\* The bodies of the two static answers.
HealthBody == <<"{", "status", "ok", "}">>
ModelsBody == <<"{", "list", "kimi-for-coding", "kimi-k2", "}">>

\* convertAnthropicToOpenAI, as far as the routing depends on it.
ConvertAnthropicToOpenAI(body, isStreaming) == Body("object", isStreaming)

\* fetch(request), up to its first backend call or its local response.
Fetch ==
    /\ pc = "idle"
    /\ IF Route(req) = "preflight"
       THEN Respond(Response(200, "preflight", <<>>, "", NoTranslation))
            /\ UNCHANGED calls
       ELSE IF Route(req) = "health"
       THEN Respond(Response(200, "health", HealthBody, "", NoTranslation))
            /\ UNCHANGED calls
       ELSE IF Route(req) = "models"
       THEN Respond(Response(200, "models", ModelsBody, "", NoTranslation))
            /\ UNCHANGED calls
       ELSE IF Route(req) = "messages"
       THEN IF req.body.kind = "undecodable"
            THEN Respond(ProxyError("JSON Parse error")) /\ UNCHANGED calls
            ELSE IF req.body.kind = "null"
            THEN Respond(ProxyError("null is not an object")) /\ UNCHANGED calls
            ELSE IF req.body.kind = "badshape"
            THEN Respond(ProxyError("msg.content.map is not a function"))
                 /\ UNCHANGED calls
            ELSE LET isStreaming == req.body.stream = TRUE
                 IN  /\ calls' = Append(calls,
                            BackendCall(<<"/chat", "/completions">>, "POST",
                                        IF isStreaming THEN "text/event-stream"
                                        ELSE "application/json",
                                        ConvertAnthropicToOpenAI(req.body, isStreaming)))
                     /\ pc' = "awaitKimi"
                     /\ UNCHANGED resp
       ELSE /\ calls' = Append(calls,
                   BackendCall(ReplaceFirst(req.path, "/v1"), req.method, "none", req.body))
            /\ pc' = "awaitPass"
            /\ UNCHANGED resp
    /\ UNCHANGED <<req, kimi, pass, streamVars, aloneVars>>

\* Faulty variant: a rejected call is answered like a rejected pass-through
\* call.
KimiFailsPlain ==
    /\ pc = "awaitKimi"
    /\ Respond(Response(500, "pass_error", <<>>, "fetch failed", NoTranslation))
    /\ UNCHANGED <<req, calls, kimi, pass, streamVars, aloneVars>>

\* Faulty variant: a rejected call is issued once more before the catch
\* answers.
KimiFailsRetries ==
    /\ pc = "awaitKimi"
    /\ IF Len(calls) < 2
       THEN calls' = Append(calls, calls[Len(calls)]) /\ UNCHANGED <<pc, resp>>
       ELSE Respond(ProxyError("fetch failed")) /\ UNCHANGED calls
    /\ UNCHANGED <<req, kimi, pass, streamVars, aloneVars>>

\* The backend call of the translated endpoint rejects (network failure).
KimiFails ==
    /\ pc = "awaitKimi"
    /\ Respond(ProxyError("fetch failed"))
    /\ UNCHANGED <<req, calls, kimi, pass, streamVars, aloneVars>>

\* kimiResponse.text() followed by new Response(error, { status }).
ForwardError(status, bytes) ==
    Response(status, "kimi_error", EncodeText(DecodeWhole(bytes)), "", NoTranslation)

\* The backend answers with a status outside the success range.
KimiRespondsError ==
    /\ pc = "awaitKimi"
    /\ \E status \in Statuses, bytes \in ErrBodies :
          /\ ~IsOk(status)
          /\ kimi' = Answer(status, bytes)
          /\ Respond(ForwardError(status, bytes))
    /\ UNCHANGED <<req, calls, pass, streamVars, aloneVars>>

\* convertOpenAIToAnthropic
ConvertOpenAIToAnthropic(data) ==
    [text |-> data.content, stop_reason |-> MapStopReason(data.finish_reason)]

\* The backend answers with success and the response is not streamed:
\* kimiResponse.json(), then the response translator.
KimiRespondsJson ==
    /\ pc = "awaitKimi"
    /\ \E status \in Statuses, hasBody \in BOOLEAN, data \in KimiDatas :
          /\ IsOk(status)
          /\ ~(req.body.stream /\ hasBody)
          /\ ~hasBody => data.kind = "undecodable"
          /\ kimi' = [Answer(status, <<>>) EXCEPT !.data = data.kind]
          /\ IF data.kind = "undecodable" THEN Respond(ProxyError("JSON Parse error"))
             ELSE IF data.kind = "null" THEN Respond(ProxyError("null is not an object"))
             ELSE Respond(Response(200, "translated", <<>>, "",
                                   ConvertOpenAIToAnthropic(data)))
    /\ UNCHANGED <<req, calls, pass, streamVars, aloneVars>>

\* The backend answers with success and the response is streamed:
\* handleStreamingResponse builds the outbound stream, whose start() issues
\* the first read, and the response is returned.
KimiRespondsStream ==
    /\ pc = "awaitKimi"
    /\ req.body.stream
    /\ \E status \in Statuses, bytes \in LiveInputs :
          /\ IsOk(status)
          /\ kimi' = Answer(status, <<>>)
          /\ input' = bytes
    /\ Respond(Response(200, "stream", <<>>, "", NoTranslation))
    /\ upstream' = "open"
    /\ loop' = "reading"
    /\ ctrl' = "readable"
    /\ UNCHANGED <<req, calls, pass, pos, pend, buffer, out, queue, delivered, midLine,
                   aloneVars>>

\* new Response(response.body, { status, headers: { ...corsHeaders,
\* ...Object.fromEntries(response.headers) } })
PassThrough(status, headers, bytes) ==
    [Response(status, "passthrough", bytes, "", NoTranslation)
        EXCEPT !.headers = Merge(CorsHeaders, headers)]

\* The pass-through call resolves: status and body are handed on, the
\* headers under the CORS headers.
PassResponds ==
    /\ pc = "awaitPass"
    /\ \E status \in Statuses, headers \in BackendHeaders, bytes \in ErrBodies :
          /\ pass' = PassAnswer(status, headers, bytes)
          /\ Respond(PassThrough(status, headers, bytes))
    /\ UNCHANGED <<req, calls, kimi, streamVars, aloneVars>>

\* The pass-through call rejects: { error: message } with status 500.
PassFails ==
    /\ pc = "awaitPass"
    /\ Respond(Response(500, "pass_error", <<>>, "fetch failed", NoTranslation))
    /\ UNCHANGED <<req, calls, kimi, pass, streamVars, aloneVars>>

\* ------------------------------------------------------------ streaming
HighWaterMark == 1

Enqueue(events) ==
    /\ out' = out \o events
    /\ queue' = queue \o events

\* finally { controller.close() }: with events still queued the stream
\* closes once they are taken; on a cancelled stream close() throws and the
\* promise of start() rejects.
Close(q) ==
    IF ctrl = "readable"
    THEN /\ ctrl' = IF q = <<>> THEN "closed" ELSE "closing"
         /\ loop' = "returned"
    ELSE /\ ctrl' = ctrl
         /\ loop' = "rejected"

\* reader.read() resolves with a chunk of n bytes: one turn of the while
\* loop.  Unless an exception leaves the loop, the turn ends by issuing the
\* next reader.read() (loop stays "reading").
Read(n) ==
    /\ loop = "reading"
    /\ upstream = "open"
    /\ pos + n <= Len(input)
    /\ LET d == DecodeStream(pend, SubSeq(input, pos + 1, pos + n))
           pieces == SplitLF(buffer \o d.text)
           r == ProcessLines(CompleteLines(pieces), ctrl = "readable")
       IN  /\ pos' = pos + n
           /\ pend' = d.pend
           /\ buffer' = PopTail(pieces)
           /\ midLine' = (midLine \/ PopTail(pieces) # <<>> \/ d.pend # <<>>)
           /\ Enqueue(r.events)
           /\ IF r.threw
              THEN Close(queue \o r.events)
              ELSE UNCHANGED <<ctrl, loop>>
    /\ UNCHANGED <<handlerVars, aloneVars, input, upstream, delivered>>

\* reader.read() resolves with done: the remaining buffer, the final
\* message_stop, close.
ReadDone ==
    /\ loop = "reading"
    /\ upstream = "open"
    /\ pos = Len(input)
    /\ upstream' = "done"
    /\ LET r == FlushBuffer(buffer, ctrl = "readable")
       IN  /\ Enqueue(r.events)
           /\ Close(queue \o r.events)
    /\ UNCHANGED <<handlerVars, aloneVars, input, pos, pend, buffer, delivered, midLine>>

\* Faulty variant: a failed read is handled like the end of the stream.
ReadErrorFlushes ==
    /\ loop = "reading"
    /\ upstream = "open"
    /\ upstream' = "errored"
    /\ LET r == FlushBuffer(buffer, ctrl = "readable")
       IN  /\ Enqueue(r.events)
           /\ Close(queue \o r.events)
    /\ UNCHANGED <<handlerVars, aloneVars, input, pos, pend, buffer, delivered, midLine>>

\* reader.read() rejects (the backend connection fails): catch, close.
ReadError ==
    /\ loop = "reading"
    /\ upstream = "open"
    /\ upstream' = "errored"
    /\ Close(queue)
    /\ UNCHANGED <<handlerVars, aloneVars, input, pos, pend, buffer, out, queue,
                   delivered, midLine>>

\* The caller takes the next event of the outbound stream.
CallerPull ==
    /\ ctrl \in {"readable", "closing"}
    /\ queue # <<>>
    /\ delivered' = Append(delivered, Head(queue))
    /\ queue' = Tail(queue)
    /\ ctrl' = IF ctrl = "closing" /\ Tail(queue) = <<>> THEN "closed" ELSE ctrl
    /\ UNCHANGED <<handlerVars, aloneVars, input, pos, upstream, loop, pend, buffer,
                   out, midLine>>

\* The caller disconnects: the outbound stream is cancelled and its queue
\* dropped.  The underlying source has no cancel(), so nothing reaches the
\* reader of the backend stream.
CallerCancel ==
    /\ ctrl \in {"readable", "closing"}
    /\ ctrl' = "cancelled"
    /\ queue' = <<>>
    /\ UNCHANGED <<handlerVars, aloneVars, input, pos, upstream, loop, pend, buffer, out,
                   delivered, midLine>>

Next ==
    \/ Fetch
    \/ KimiFails
    \/ KimiRespondsError
    \/ KimiRespondsJson
    \/ KimiRespondsStream
    \/ PassResponds
    \/ PassFails
    \/ \E n \in 1..MaxChunk : Read(n)
    \/ ReadDone
    \/ ReadError
    \/ CallerPull
    \/ CallerCancel

Spec == Init /\ [][Next]_vars

\* ------------------------------------------------------------ re-framer alone
\* A streaming connection right after handleStreamingResponse has returned,
\* for any backend stream; the backend delivers it in chunks of any size and
\* then closes.
StreamingRequest ==
    [method |-> "POST", path |-> <<"/v1", "/messages">>,
     headers |-> {<<"Authorization", "Bearer caller">>,
                  <<"Content-Type", "application/json">>},
     body |-> Body("object", TRUE)]

InitReframer ==
    /\ TranslatorsIdle
    /\ ConnectionsIdle
    /\ EnforcerIdle
    /\ ResolverIdle
    /\ IdsIdle
    /\ HintIdle
    /\ req = StreamingRequest
    /\ pc = "responded"
    /\ resp = Response(200, "stream", <<>>, "", NoTranslation)
    /\ calls = <<BackendCall(<<"/chat", "/completions">>, "POST", "text/event-stream",
                             ConvertAnthropicToOpenAI(req.body, TRUE))>>
    /\ kimi = Answer(200, <<>>)
    /\ pass = NoPassAnswer
    /\ input \in StreamInputs
    /\ pos = 0
    /\ upstream = "open"
    /\ loop = "reading"
    /\ pend = <<>>
    /\ buffer = <<>>
    /\ out = <<>>
    /\ queue = <<>>
    /\ delivered = <<>>
    /\ ctrl = "readable"
    /\ midLine = FALSE

NextReframer ==
    \/ \E n \in 1..Len(input) : Read(n)
    \/ ReadDone

SpecReframer == InitReframer /\ [][NextReframer]_vars

\* ------------------------------------------------------------ translators alone
\* The three translators, each applied once to any input.
InitTranslators ==
    /\ req = StreamingRequest
    /\ pc = "idle"
    /\ resp = NoResponse
    /\ calls = <<>>
    /\ kimi = NoAnswer
    /\ pass = NoPassAnswer
    /\ input = <<>>
    /\ pos = 0
    /\ upstream = "none"
    /\ loop = "none"
    /\ pend = <<>>
    /\ buffer = <<>>
    /\ out = <<>>
    /\ queue = <<>>
    /\ delivered = <<>>
    /\ ctrl = "none"
    /\ midLine = FALSE
    /\ ConnectionsIdle
    /\ EnforcerIdle
    /\ ResolverIdle
    /\ IdsIdle
    /\ HintIdle
    /\ op \in {"request", "response", "chunk"}
    /\ anthropicBody \in IF op = "request" THEN AnthropicBodies ELSE {PlainBody}
    /\ openaiData \in IF op = "response" THEN OpenAIDatas
                      ELSE {OpenAIData(<<>>, FALSE, 0, 0)}
    /\ openaiChunk \in IF op = "chunk" THEN Chunks ELSE {NoChunk}
    /\ openaiBody = NoOpenAIBody
    /\ anthropicResponse = NoAnthropicResponse
    /\ anthropicChunk = <<>>

\* isStreaming = body.stream === true, then convertAnthropicToOpenAI.
TranslateRequest ==
    /\ op = "request"
    /\ op' = "request_done"
    /\ openaiBody' = convertAnthropicToOpenAI(anthropicBody, anthropicBody.stream = "true")
    /\ UNCHANGED <<handlerVars, streamVars, connVars, enforcerVars, resolverVars, idVars, hintVars,
                   anthropicBody, openaiData, anthropicResponse, openaiChunk,
                   anthropicChunk>>

\* convertOpenAIToAnthropic(kimiData, body)
TranslateResponse ==
    /\ op = "response"
    /\ op' = "response_done"
    /\ anthropicResponse' = convertOpenAIToAnthropic(openaiData, anthropicBody)
    /\ UNCHANGED <<handlerVars, streamVars, connVars, enforcerVars, resolverVars, idVars, hintVars,
                   anthropicBody, openaiBody, openaiData, openaiChunk, anthropicChunk>>

\* convertOpenAIStreamChunkToAnthropic(chunk, originalBody)
TranslateChunk ==
    /\ op = "chunk"
    /\ op' = "chunk_done"
    /\ anthropicChunk' = ConvertChunk(openaiChunk).events
    /\ UNCHANGED <<handlerVars, streamVars, connVars, enforcerVars, resolverVars, idVars, hintVars,
                   anthropicBody, openaiBody, openaiData, anthropicResponse, openaiChunk>>

NextTranslators ==
    \/ TranslateRequest
    \/ TranslateResponse
    \/ TranslateChunk

SpecTranslators == InitTranslators /\ [][NextTranslators]_vars

\* ------------------------------------------------------------ two connections
\* Two streaming connections open at once, each right after its
\* handleStreamingResponse has returned; the turns of their read loops
\* interleave in any order (a turn runs from one await to the next).
ConcurrentInputs ==
    { JoinLines(<<LStart, LHe, LDone>>, TRUE),
      JoinLines(<<LHe, LTruncated, LStop>>, FALSE),
      JoinLines(<<LAccent>>, TRUE) }

InitConnections ==
    /\ TranslatorsIdle
    /\ EnforcerIdle
    /\ ResolverIdle
    /\ IdsIdle
    /\ HintIdle
    /\ req = StreamingRequest
    /\ pc = "responded"
    /\ resp = Response(200, "stream", <<>>, "", NoTranslation)
    /\ calls = <<BackendCall(<<"/chat", "/completions">>, "POST", "text/event-stream",
                             ConvertAnthropicToOpenAI(req.body, TRUE))>>
    /\ kimi = Answer(200, <<>>)
    /\ pass = NoPassAnswer
    /\ input = <<>>
    /\ pos = 0
    /\ upstream = "none"
    /\ loop = "none"
    /\ pend = <<>>
    /\ buffer = <<>>
    /\ out = <<>>
    /\ queue = <<>>
    /\ delivered = <<>>
    /\ ctrl = "none"
    /\ midLine = FALSE
    /\ conns \in [Connections -> {Connection(bytes) : bytes \in ConcurrentInputs}]
    /\ buffers = [c \in Connections |-> <<>>]

\* One turn of the while loop of connection c, for a chunk of n bytes.
ReadOn(c, n) ==
    /\ conns[c].loop = "reading"
    /\ conns[c].pos + n <= Len(conns[c].input)
    /\ LET d == DecodeStream(conns[c].pend,
                             SubSeq(conns[c].input, conns[c].pos + 1, conns[c].pos + n))
           pieces == SplitLF(buffers[Slot(c)] \o d.text)
           r == ProcessLines(CompleteLines(pieces), TRUE)
       IN  /\ conns' = [conns EXCEPT ![c].pos = @ + n,
                                     ![c].pend = d.pend,
                                     ![c].out = @ \o r.events]
           /\ buffers' = [buffers EXCEPT ![Slot(c)] = PopTail(pieces)]
    /\ UNCHANGED <<handlerVars, streamVars, translatorVars, enforcerVars, resolverVars, idVars,
                   hintVars>>

\* The backend stream of connection c is done: the remaining buffer, the
\* final message_stop, close.
ReadDoneOn(c) ==
    /\ conns[c].loop = "reading"
    /\ conns[c].pos = Len(conns[c].input)
    /\ LET r == FlushBuffer(buffers[Slot(c)], TRUE)
       IN  conns' = [conns EXCEPT ![c].loop = "returned", ![c].out = @ \o r.events]
    /\ UNCHANGED <<handlerVars, streamVars, translatorVars, enforcerVars, resolverVars, idVars,
                   hintVars,
                   buffers>>

NextConnections ==
    \/ \E c \in Connections, n \in 1..MaxChunk : ReadOn(c, n)
    \/ \E c \in Connections : ReadDoneOn(c)

SpecConnections == InitConnections /\ [][NextConnections]_vars

\* ------------------------------------------------------------ todo enforcer
\* The hooks of the plugin that read or write the todo store, called in any
\* order for any agent and session, while the clock advances.
HandlerIdle ==
    /\ req = StreamingRequest
    /\ pc = "idle"
    /\ resp = NoResponse
    /\ calls = <<>>
    /\ kimi = NoAnswer
    /\ pass = NoPassAnswer
    /\ input = <<>>
    /\ pos = 0
    /\ upstream = "none"
    /\ loop = "none"
    /\ pend = <<>>
    /\ buffer = <<>>
    /\ out = <<>>
    /\ queue = <<>>
    /\ delivered = <<>>
    /\ ctrl = "none"
    /\ midLine = FALSE

InitEnforcer ==
    /\ HandlerIdle
    /\ TranslatorsIdle
    /\ ConnectionsIdle
    /\ EnforcerIdle
    /\ ResolverIdle
    /\ IdsIdle
    /\ HintIdle

\* "message.completed": the todos of the message replace the session's
\* entry, and the open ones are appended to the message.
MessageCompleted(agent, session, todos) ==
    /\ hook' = Hook("message.completed", agent, session)
    /\ IF agent \in EnforcedAgents /\ todos # <<>>
       THEN /\ store' = StoreSet(store, SessionKey(IdOf(session)), todos, agent, now)
            /\ output' = [NoOutput EXCEPT !.todoBlock =
                              \E i \in 1..Len(todos) : todos[i].status # "completed"]
       ELSE /\ store' = store
            /\ output' = NoOutput
    /\ UNCHANGED <<handlerVars, streamVars, translatorVars, connVars, resolverVars, idVars,
                   hintVars, now>>

\* "stop.requested": denied while the session has open todos; otherwise the
\* session's entry is deleted.
StopRequested(agent, session) ==
    /\ hook' = Hook("stop.requested", agent, session)
    /\ IF agent \notin EnforcedAgents
       THEN store' = store /\ output' = NoOutput
       ELSE IF CountUnfinished(store, SessionKey(IdOf(session))) > 0
       THEN /\ output' = Output(TRUE, CountUnfinished(store, SessionKey(IdOf(session))),
                                [i \in 1..Len(GetAllPending(store, SessionKey(IdOf(session)))) |->
                                    GetAllPending(store, SessionKey(IdOf(session)))[i].description],
                                FALSE)
            /\ store' = store
       ELSE /\ output' = NoOutput
            /\ store' = StoreDelete(store, SessionKey(IdOf(session)))
    /\ UNCHANGED <<handlerVars, streamVars, translatorVars, connVars, resolverVars, idVars,
                   hintVars, now>>

\* "session.start": cleanup.  The hook reads the agent, not the session id.
SessionStart(agent, session) ==
    /\ hook' = Hook("session.start", agent, session)
    /\ store' = IF agent \in EnforcedAgents THEN Cleanup(store, now) ELSE store
    /\ output' = NoOutput
    /\ UNCHANGED <<handlerVars, streamVars, translatorVars, connVars, resolverVars, idVars,
                   hintVars, now>>

\* "session.end": the session's entry is deleted.
SessionEnd(agent, session) ==
    /\ hook' = Hook("session.end", agent, session)
    /\ store' = IF agent \in EnforcedAgents THEN StoreDelete(store, SessionKey(IdOf(session)))
                ELSE store
    /\ output' = NoOutput
    /\ UNCHANGED <<handlerVars, streamVars, translatorVars, connVars, resolverVars, idVars,
                   hintVars, now>>

\* Time passes between two events.
Tick ==
    /\ now + TickHours <= MaxClock
    /\ now' = now + TickHours
    /\ hook' = NoHook
    /\ output' = NoOutput
    /\ UNCHANGED <<handlerVars, streamVars, translatorVars, connVars, resolverVars, idVars,
                   hintVars, store>>

NextEnforcer ==
    \/ \E agent \in Agents, session \in Sessions, todos \in TodoLists :
          MessageCompleted(agent, session, todos)
    \/ \E agent \in Agents, session \in Sessions : StopRequested(agent, session)
    \/ \E agent \in Agents, session \in Sessions : SessionStart(agent, session)
    \/ \E agent \in Agents, session \in Sessions : SessionEnd(agent, session)
    \/ Tick

SpecEnforcer == InitEnforcer /\ [][NextEnforcer]_vars

\* ------------------------------------------------------------ config hook
\* The config hook alone: one agent's config entry, its own environment
\* variable and the two group variables hold any of the values above.
InitResolver ==
    /\ HandlerIdle
    /\ TranslatorsIdle
    /\ ConnectionsIdle
    /\ EnforcerIdle
    /\ IdsIdle
    /\ HintIdle
    /\ \E name \in AgentNames, existing \in ExistingValues, specific \in SpecificValues,
          subagents \in GroupValues, primaries \in GroupValues :
          /\ inputAgent = [a \in AgentNames |->
                          IF a = name /\ existing # Unset
                          THEN AgentConfig(existing, "none", FALSE) ELSE NoAgentConfig]
          /\ env = [v \in EnvVars |->
                        IF v = SpecificVar(name) THEN specific
                        ELSE IF v = GroupVar("subagent") THEN subagents
                        ELSE IF v = GroupVar("primary") THEN primaries
                        ELSE Unset]

\* config: every agent is registered with its resolved model.
ConfigHook ==
    /\ inputAgent' = ConfigureFirst(inputAgent, env, Len(ConfiguredAgents))
    /\ UNCHANGED <<handlerVars, streamVars, translatorVars, connVars, enforcerVars, idVars,
                   hintVars,
                   env>>

NextResolver == ConfigHook

SpecResolver == InitResolver /\ [][NextResolver]_vars

\* ------------------------------------------------------------ response ids
\* The non-streaming calls of one process: each translated response takes
\* its id from the clock reading at which convertOpenAIToAnthropic runs, and
\* any number of calls may be translated within one millisecond.
InitIds ==
    /\ HandlerIdle
    /\ TranslatorsIdle
    /\ ConnectionsIdle
    /\ EnforcerIdle
    /\ ResolverIdle
    /\ IdsIdle
    /\ HintIdle

\* convertOpenAIToAnthropic builds the response of one more call.
TranslateCall ==
    /\ Len(responseIds) < MaxCalls
    /\ responseIds' = Append(responseIds, MessageId(millis))
    /\ UNCHANGED <<handlerVars, streamVars, translatorVars, connVars, enforcerVars,
                   resolverVars, hintVars, millis>>

\* A millisecond passes.
MilliTick ==
    /\ millis < MaxMillis
    /\ millis' = millis + 1
    /\ UNCHANGED <<handlerVars, streamVars, translatorVars, connVars, enforcerVars,
                   resolverVars, hintVars, responseIds>>

NextIds == TranslateCall \/ MilliTick

SpecIds == InitIds /\ [][NextIds]_vars

\* ------------------------------------------------------------ build-mode hint
\* One message of a session: the host calls the message.updated hook with
\* its content, shows what the hook leaves in output.content, and calls the
\* hook again with that when the message is updated once more.
InitHint ==
    /\ HandlerIdle
    /\ TranslatorsIdle
    /\ ConnectionsIdle
    /\ EnforcerIdle
    /\ ResolverIdle
    /\ IdsIdle
    /\ \E agentName \in HintAgents \cup {"build"}, outputIsObject \in BOOLEAN,
          content \in UNION {[1..n -> ContentTokens] : n \in 0..MaxTokens} :
          sessionMessage = [agent |-> agentName, content |-> content,
                            output |-> outputIsObject, updates |-> 0]

\* "message.updated"
MessageUpdated ==
    /\ sessionMessage.updates < MaxUpdates
    /\ sessionMessage' =
          [sessionMessage EXCEPT
              !.content = messageUpdated(sessionMessage.agent, sessionMessage.content,
                                         sessionMessage.output),
              !.updates = sessionMessage.updates + 1]
    /\ UNCHANGED <<handlerVars, streamVars, translatorVars, connVars, enforcerVars,
                   resolverVars, idVars>>

NextHint == MessageUpdated

SpecHint == InitHint /\ [][NextHint]_vars

\* ------------------------------------------------------------ reference runs
\* The events of a list of complete lines, line after line.
LineEvents(lines) ==
    LET run[i \in 0..Len(lines)] ==
            IF i = 0 THEN <<>> ELSE run[i - 1] \o ProcessLine(lines[i], TRUE).events
    IN  run[Len(lines)]

\* The pieces of the first n bytes of the stream, decoded in one go.
PiecesOf(bytes, n) == SplitLF(DecodeStream(<<>>, SubSeq(bytes, 1, n)).text)

\* The events of a connection that receives the whole stream in a single
\* read and then sees the upstream close.
SingleRead(bytes) ==
    LET d == DecodeStream(<<>>, bytes)
    IN  ProcessLines(CompleteLines(SplitLF(d.text)), TRUE).events
        \o FlushBuffer(PopTail(SplitLF(d.text)), TRUE).events

CountStops(events) == Cardinality({i \in 1..Len(events) : events[i] = MessageStop})

\* ------------------------------------------------------------ claims

\* C1: however the backend's bytes are cut into reads, the events enqueued
\* up to and including upstream close are those of a single read of the
\* whole stream.
ChunkSplitInvariance ==
    loop = "returned" => out = SingleRead(input)

\* C1 witness: a stream delivered with a cut inside a line has closed after
\* several events.
ChunkSplitWitness ==
    loop = "returned" /\ midLine /\ Len(out) >= 3

\* C2: a stream that ends with a normal upstream close carries exactly one
\* message_stop event.
ExactlyOneStreamEnd ==
    (loop = "returned" /\ upstream = "done") => CountStops(out) = 1

\* The six events of the hello-world exchange.
HelloEvents ==
    << MessageStart("msg_now"), ContentBlockDelta(<<"He">>), ContentBlockDelta(<<"llo">>),
       ContentBlockDelta(<<"_world">>), MessageDelta("end_turn", 0), MessageStop >>

\* C3: the hello-world frame sequence followed by upstream close translates
\* to exactly six events: message_start, three text deltas, message_delta
\* with end_turn, message_stop.
HelloTranslation ==
    (input \in {JoinLines(HelloLines, TRUE), JoinLines(HelloLines, FALSE)}
     /\ loop = "returned")
        => out = HelloEvents

\* C4: events are enqueued in the order their lines completed, and when the
\* next read is issued every line completed so far has had its events
\* enqueued; upstream close completes the last line.
OrderPreserved ==
    /\ loop = "reading" => out = LineEvents(CompleteLines(PiecesOf(input, pos)))
    /\ loop = "returned" =>
          out = LineEvents(CompleteLines(PiecesOf(input, Len(input))))
                \o FlushBuffer(PopTail(PiecesOf(input, Len(input))), TRUE).events

\* C4 witness: the next read is pending and two different events have been
\* enqueued already.
OrderWitness ==
    loop = "reading" /\ pos < Len(input) /\ Len(out) >= 2 /\ out[1] # out[2]

\* A data-bearing line whose payload fails to decode or makes the classifier
\* throw.
Malformed(line) ==
    /\ StartsWith(line, DataPrefix)
    /\ Slice(line, PrefixLen) # DoneSentinel
    /\ LET chunk == ParseJSON(Slice(line, PrefixLen))
       IN  chunk.kind = "SyntaxError" \/ ConvertChunk(chunk).threw

\* C5: lines that fail to decode, or make the classifier throw, contribute
\* nothing: the events are those of the stream without them, and the stream
\* ends with message_stop and close.
MalformedLineDropped ==
    loop = "returned" =>
        LET pieces == PiecesOf(input, Len(input))
            kept == SelectSeq(CompleteLines(pieces), LAMBDA l : ~Malformed(l))
            tail == IF Malformed(PopTail(pieces)) THEN <<>> ELSE PopTail(pieces)
        IN  /\ out = ProcessLines(kept, TRUE).events \o FlushBuffer(tail, TRUE).events
            /\ out[Len(out)] = MessageStop
            /\ ctrl \in {"closing", "closed"}

\* C5 witness: a stream with a malformed line before a valid frame has
\* closed, and the frame's event is there.
MalformedWitness ==
    /\ loop = "returned"
    /\ Len(out) >= 2
    /\ LET lines == CompleteLines(PiecesOf(input, Len(input)))
       IN  Len(lines) >= 2 /\ Malformed(lines[1]) /\ ~Malformed(lines[2])
           /\ ProcessLine(lines[2], TRUE).events # <<>>

\* C6: a new read is issued on the backend stream only while the outbound
\* queue is below its high-water mark.
Backpressure ==
    [][(pos' # pos /\ loop' = "reading") => Len(queue') < HighWaterMark]_vars

\* C7: once the caller has disconnected, nothing more is read from the
\* backend stream and nothing more is enqueued.
CancellationStopsReading ==
    [][ctrl = "cancelled" => (pos' = pos /\ out' = out)]_vars

\* C8: when a read fails, the outbound stream is closed, the events enqueued
\* before the failure are those of the lines completed until then and reach
\* the caller in order, nothing is enqueued afterwards, and the backend has
\* been called once.
MidStreamFailure ==
    (upstream = "errored" /\ ctrl # "cancelled") =>
        /\ loop = "returned"
        /\ ctrl \in {"closing", "closed"}
        /\ ctrl = "closed" <=> queue = <<>>
        /\ out = LineEvents(CompleteLines(PiecesOf(input, pos)))
        /\ delivered \o queue = out
        /\ Len(calls) = 1

\* C8 witness: the backend failed after events were enqueued, and the caller
\* has received them all from the closed stream.
MidStreamFailureWitness ==
    /\ upstream = "errored"
    /\ ctrl = "closed"
    /\ Len(out) >= 2
    /\ delivered = out

\* C9: a backend answer with a failure status reaches the caller with the
\* same status and the same body bytes, untranslated.
FailureForwardedVerbatim ==
    (pc = "responded" /\ kimi # NoAnswer /\ ~IsOk(kimi.status)) =>
        /\ resp.kind = "kimi_error"
        /\ resp.status = kimi.status
        /\ resp.bytes = kimi.bytes
        /\ resp.translated = NoTranslation
        /\ ctrl = "none"

\* A request that reaches the translated endpoint with a body that does not
\* decode.
UndecodableRequest ==
    /\ req.path \in MessagesPaths
    /\ req.method # "OPTIONS"
    /\ req.body.kind = "undecodable"

\* C10: a request to the translated endpoint whose body does not decode is
\* answered with status 500 and the proxy_error envelope with a non-empty
\* message, and no backend call is made for it.
UndecodableBodyRejected ==
    UndecodableRequest =>
        /\ calls = <<>>
        /\ pc \in {"idle", "responded"}
        /\ pc = "responded" =>
              /\ resp.status = 500
              /\ resp.kind = "proxy_error"
              /\ resp.message # ""

\* C10 witness: a POST with an undecodable body has been answered.
UndecodableBodyWitness ==
    UndecodableRequest /\ req.method = "POST" /\ pc = "responded"

\* A response built by the catch of the translated endpoint.
IsProxyError == pc = "responded" /\ resp.kind = "proxy_error"

CompletionReasonMapping ==
    /\ op = "response_done" =>
          anthropicResponse.stop_reason =
              IF openaiData.choices # <<>> /\ openaiData.choices[1].finish_reason = "stop"
              THEN "end_turn" ELSE "null"
    /\ op = "chunk_done" =>
          \A i \in 1..Len(anthropicChunk) :
              /\ anthropicChunk[i].stop_reason \in {"end_turn", "null", "none"}
              /\ anthropicChunk[i].type = "message_delta" =>
                    anthropicChunk[i].stop_reason =
                        IF openaiChunk.finish_reason = "stop" THEN "end_turn" ELSE "null"

\* C12 witness: a frame with the reason "length" has become a message_delta.
CompletionReasonWitness ==
    /\ op = "chunk_done"
    /\ openaiChunk.finish_reason = "length"
    /\ anthropicChunk # <<>>
    /\ anthropicChunk[1].type = "message_delta"

\* C13: the translated response has exactly one content block, of type
\* text, whose text is the text of the first choice, or empty when there
\* is none.
FirstChoiceTextPreserved ==
    op = "response_done" =>
        anthropicResponse.content =
            << [type |-> "text",
                text |-> IF openaiData.choices # <<>> /\ openaiData.choices[1].hasContent
                         THEN openaiData.choices[1].content ELSE <<>>] >>

\* C13 witness: a response with two choices of different texts has been
\* translated.
FirstChoiceWitness ==
    /\ op = "response_done"
    /\ Len(openaiData.choices) = 2
    /\ openaiData.choices[1].content # <<>>
    /\ openaiData.choices[2].content # <<>>
    /\ openaiData.choices[1].content # openaiData.choices[2].content

\* The request translator has returned a body.
RequestBuilt == op = "request_done" /\ ~openaiBody.threw

\* The caller's messages.
Items == IF anthropicBody.messages.kind = "absent" THEN <<>> ELSE anthropicBody.messages.items

\* C14 as stated: every message of the built request has one of the two
\* roles user and assistant.
RolesTwoValued ==
    RequestBuilt =>
        \A i \in 1..Len(openaiBody.messages) :
            openaiBody.messages[i].role \in {"user", "assistant"}

\* C14: every message built from a caller message has the role assistant
\* when the caller's role is assistant and the role user otherwise; the
\* only other role in the request is that of the leading system message.
CallerRolesTwoValued ==
    RequestBuilt =>
        LET k == Len(openaiBody.messages) - Len(Items)
        IN  /\ k \in {0, 1}
            /\ k = 1 => openaiBody.messages[1].role = "system"
            /\ \A i \in 1..Len(Items) :
                  openaiBody.messages[k + i].role =
                      IF Items[i].role = "assistant" THEN "assistant" ELSE "user"

\* C14 witness: a request with a system instruction and a caller message of
\* role tool or system has been built.
CallerRolesWitness ==
    /\ RequestBuilt
    /\ Len(openaiBody.messages) = Len(Items) + 1
    /\ \E i \in 1..Len(Items) : Items[i].role \in {"tool", "system"}

\* The messages built from the caller's messages are the k-th and
\* following, one per caller message, in order.
CallerMessagesFollow(k) ==
    /\ Len(openaiBody.messages) = k + Len(Items)
    /\ \A i \in 1..Len(Items) :
          /\ openaiBody.messages[k + i].role # "system"
          /\ (openaiBody.messages[k + i].role = "assistant") <=> (Items[i].role = "assistant")
          /\ Items[i].content.kind = "string" =>
                openaiBody.messages[k + i].content = Items[i].content.text

\* C15 as stated: a system instruction, string or list, gives exactly one
\* system message, the first, whose content is the segments one after the
\* other; the caller's messages follow; without one there is none.
SystemPlacement ==
    RequestBuilt =>
        IF anthropicBody.system.kind \in {"string", "list"}
        THEN /\ openaiBody.messages # <<>>
             /\ openaiBody.messages[1] =
                   [role |-> "system", content |-> JoinWith(anthropicBody.system.segs, <<>>)]
             /\ CallerMessagesFollow(1)
        ELSE CallerMessagesFollow(0)

\* C15: a system instruction that is a non-empty string or a list gives
\* exactly one system message, the first, whose content is the string, or
\* the segments joined by line feeds; the caller's messages follow in order;
\* without one, or with the empty string, there is no system message.
SystemPlacementLineFeed ==
    RequestBuilt =>
        IF \/ anthropicBody.system.kind = "list"
           \/ anthropicBody.system.kind = "string" /\ anthropicBody.system.segs[1] # <<>>
        THEN /\ openaiBody.messages # <<>>
             /\ openaiBody.messages[1] =
                   [role |-> "system", content |-> JoinWith(anthropicBody.system.segs, <<LF>>)]
             /\ CallerMessagesFollow(1)
        ELSE CallerMessagesFollow(0)

\* C15 witness: a request with two system segments and two caller messages
\* of different roles has been built.
SystemPlacementWitness ==
    /\ RequestBuilt
    /\ anthropicBody.system.kind = "list"
    /\ Len(anthropicBody.system.segs) = 2
    /\ anthropicBody.system.segs[1] # <<>>
    /\ anthropicBody.system.segs[2] # <<>>
    /\ Len(Items) = 2
    /\ Items[1].role = "assistant"
    /\ Items[2].role = "user"

\* C16 as stated: a generation parameter the caller gives is copied whatever
\* its value, the defaults stand in for absent ones, and the backend request
\* streams exactly when the caller's stream member is true.
ParametersCopied ==
    RequestBuilt =>
        /\ openaiBody.max_tokens =
              IF anthropicBody.max_tokens.present THEN anthropicBody.max_tokens.value
              ELSE DefaultMaxTokens
        /\ openaiBody.temperature =
              IF anthropicBody.temperature.present THEN anthropicBody.temperature.value
              ELSE DefaultTemperature
        /\ openaiBody.top_p =
              IF anthropicBody.top_p.present THEN anthropicBody.top_p.value
              ELSE DefaultTopP
        /\ openaiBody.stream = (anthropicBody.stream = "true")

\* The request is, or has been, in the hands of this branch of the handler.
HandledBy ==
    IF pc = "awaitKimi" THEN "messages"
    ELSE IF pc = "awaitPass" THEN "passthrough"
    ELSE IF resp.kind \in {"proxy_error", "kimi_error", "translated", "stream"}
         THEN "messages"
    ELSE IF resp.kind \in {"passthrough", "pass_error"} THEN "passthrough"
    ELSE resp.kind

\* C17 as stated: a request other than OPTIONS is translated only when it
\* is a POST to the translated endpoint, gets the model list only when it
\* is a GET to a models path, gets the ok status only when it is a GET to
\* the liveness path, and is forwarded by the pass-through otherwise.
DispatchByMethodAndPath ==
    (pc # "idle" /\ req.method # "OPTIONS") =>
        HandledBy =
            IF req.method = "POST" /\ req.path \in MessagesPaths THEN "messages"
            ELSE IF req.method = "GET" /\ req.path \in ModelsPaths THEN "models"
            ELSE IF req.method = "GET" /\ req.path = HealthPath THEN "health"
            ELSE "passthrough"

\* C18 as stated: the pass-through makes one backend call with the caller's
\* method, the caller's headers with the credential replaced, and the
\* caller's body, and hands on the backend's status, headers and body with
\* nothing added or removed.
PassThroughTransparent ==
    (pc # "idle" /\ Route(req) = "passthrough") =>
        /\ Len(calls) = 1
        /\ calls[1].method = req.method
        /\ calls[1].body = req.body
        /\ calls[1].headers =
              Merge(req.headers, {<<"Authorization", "Bearer KIMI_API_KEY">>})
        /\ resp.kind = "passthrough" =>
              /\ resp.status = pass.status
              /\ resp.headers = pass.headers
              /\ resp.bytes = pass.bytes

\* C19: an OPTIONS request, whatever its path, is answered at once with the
\* three permissive CORS headers and an empty body; no backend call is made
\* and the body is not decoded.
PreflightAnsweredLocally ==
    req.method = "OPTIONS" =>
        /\ calls = <<>>
        /\ pc \in {"idle", "responded"}
        /\ pc = "responded" =>
              /\ resp.kind = "preflight"
              /\ resp.headers =
                    { <<"Access-Control-Allow-Origin", "*">>,
                      <<"Access-Control-Allow-Methods",
                        "GET, POST, PUT, PATCH, DELETE, OPTIONS">>,
                      <<"Access-Control-Allow-Headers", "*">> }
              /\ resp.bytes = <<>>
              /\ resp.message = ""
              /\ resp.translated = NoTranslation

\* C19 witness: an OPTIONS request to the translated endpoint has been
\* answered.
PreflightWitness ==
    req.method = "OPTIONS" /\ req.path \in MessagesPaths /\ pc = "responded"

\* C20: whatever the backend does, a request causes at most one backend
\* call.
AtMostOneBackendCall == Len(calls) <= 1

\* C20 witness: a request whose only backend call was rejected has been
\* answered.
NoRetryWitness ==
    /\ pc = "responded"
    /\ Len(calls) = 1
    /\ kimi = NoAnswer
    /\ resp.kind \in {"proxy_error", "pass_error"}

\* C21: whatever the order in which the turns of two concurrent connections
\* run, the events enqueued on each are those the connection produces when
\* it runs alone: those of the lines completed so far while it reads, and
\* those of a single read of its whole stream once it has closed.
ConnectionsIsolated ==
    \A c \in Connections :
        /\ conns[c].loop = "reading" =>
              conns[c].out = LineEvents(CompleteLines(PiecesOf(conns[c].input, conns[c].pos)))
        /\ conns[c].loop = "returned" => conns[c].out = SingleRead(conns[c].input)

\* C21 witness: both connections are inside a line, with different buffer
\* contents, and both have enqueued events already.
ConnectionsWitness ==
    /\ \A c \in Connections :
          conns[c].loop = "reading" /\ conns[c].out # <<>> /\ buffers[c] # <<>>
    /\ buffers[1] # buffers[2]
    /\ conns[1].input # conns[2].input

\* The text decoded from the bytes read so far, and the place of its last
\* line feed (0 when it has none).
TextSoFar == DecodeStream(<<>>, SubSeq(input, 1, pos)).text
LastLF ==
    LET lfs == {i \in 1..Len(TextSoFar) : TextSoFar[i] = LF}
    IN  IF lfs = {} THEN 0 ELSE CHOOSE i \in lfs : \A j \in lfs : j <= i

\* C24: after every read the LineBuffer holds no line feed and is exactly
\* the text received after the last line feed so far (empty when the text
\* ends with one), and the text up to that line feed is exactly the complete
\* lines, each followed by its line feed, whose events have been enqueued.
LineBufferInvariant ==
    loop \in {"reading", "returned"} =>
        LET lines == CompleteLines(SplitLF(TextSoFar))
            terminated == [i \in 1..Len(lines) |-> lines[i] \o <<LF>>]
        IN  /\ ~Has(buffer, LF)
            /\ buffer = SubSeq(TextSoFar, LastLF + 1, Len(TextSoFar))
            /\ JoinWith(terminated, <<>>) = SubSeq(TextSoFar, 1, LastLF)
            /\ loop = "reading" => out = LineEvents(lines)

\* C24 witness: a read has ended inside the third line of a stream.
LineBufferWitness ==
    /\ loop = "reading"
    /\ buffer # <<>>
    /\ LastLF > 0
    /\ Cardinality({i \in 1..Len(TextSoFar) : TextSoFar[i] = LF}) = 2

\* C25: a frame that carries text becomes exactly one content_block_delta
\* event with the frame's text and the frame's choice index.
TextDeltaVerbatim ==
    (op = "chunk_done" /\ openaiChunk.choice /\ openaiChunk.delta
     /\ openaiChunk.content # <<>>) =>
        /\ Len(anthropicChunk) = 1
        /\ anthropicChunk[1].type = "content_block_delta"
        /\ anthropicChunk[1].text = openaiChunk.content
        /\ anthropicChunk[1].index = openaiChunk.index

\* C26: a message_start event is enqueued for the first frame of a stream
\* only: no event of a stream other than its first is a message_start.
StreamStartOnlyFirst ==
    \A i \in 1..Len(out) : out[i].type = "message_start" => i = 1

\* C27: a frame that carries a completion reason becomes exactly one
\* message_delta event with the mapped reason and the frame's usage, also
\* when the frame carries text.
CompletionReasonNeverLost ==
    (op = "chunk_done" /\ openaiChunk.choice /\ openaiChunk.delta
     /\ openaiChunk.finish_reason # "none") =>
        Cardinality({i \in 1..Len(anthropicChunk) :
                        /\ anthropicChunk[i].type = "message_delta"
                        /\ anthropicChunk[i].stop_reason =
                              IF openaiChunk.finish_reason = "stop" THEN "end_turn"
                              ELSE "null"
                        /\ anthropicChunk[i].output_tokens =
                              openaiChunk.completion_tokens}) = 1

\* C28: every content_block_delta event of a stream comes after a
\* message_start event.
StartPrecedesText ==
    \A i \in 1..Len(out) :
        out[i].type = "content_block_delta" =>
            \E j \in 1..(i - 1) : out[j].type = "message_start"

\* C29: nothing is enqueued after a message_stop event: a message_stop is
\* the last event of its stream.
StreamEndTerminal ==
    \A i \in 1..Len(out) : out[i] = MessageStop => i = Len(out)

\* C30: a stream whose last line has no line feed when the upstream closes
\* gives the events of the same stream with that line feed.
FlushTreatsTailAsLine ==
    (loop = "returned" /\ input # <<>> /\ input[Len(input)] # LF) =>
        out = SingleRead(input \o <<LF>>)

\* The key of the session the event handled in this step belongs to.
HookKey == IF hook'.session = "none" THEN "default" ELSE hook'.session

\* The open todos the store held for that session before the step.
OpenBefore ==
    IF ~store[HookKey].present THEN <<>>
    ELSE SelectSeq(store[HookKey].todos, LAMBDA t : t.status # "completed")

\* C22: a stop.requested event is denied, with a reason that lists the open
\* todos, exactly when the agent is ultraplan or strategos and the store
\* holds a todo of the session that is not completed; for any other agent it
\* is not denied and the store is left as it was.
TodoEnforcement ==
    [][hook'.name = "stop.requested" =>
          /\ output'.continue <=>
                (hook'.agent \in {"ultraplan", "strategos"} /\ OpenBefore # <<>>)
          /\ output'.continue =>
                /\ output'.reason.count = Len(OpenBefore)
                /\ output'.reason.open =
                      [i \in 1..Len(OpenBefore) |-> OpenBefore[i].description]
          /\ hook'.agent \notin {"ultraplan", "strategos"} => store' = store]_vars

\* C22 witness: a stop request of a session whose stored list has a
\* completed and an open todo has been denied.
TodoEnforcementWitness ==
    /\ hook.name = "stop.requested"
    /\ output.continue
    /\ output.reason.open = <<"b">>
    /\ Len(store[SessionKey(hook.session)].todos) = 2

\* The sources of an agent's model in priority order: its config entry, its
\* own environment variable, the variable of its group.
SourcesOf(name) ==
    << inputAgent[name].model,
       env[<<"ENHANCER_MODEL_">> \o
           [i \in 1..Len(name) |-> IF name[i] = "-" THEN "_" ELSE UpperToken[name[i]]]],
       env[<<"ENHANCER_MODEL_", IF TypeOf(name) = "subagent" THEN "SUBAGENT" ELSE "PRIMARY">>] >>

KnownPrefix(value) ==
    /\ value.kind = "string"
    /\ Len(value.text) >= 2
    /\ value.text[1] \in {"opencode", "anthropic", "openai", "google", "mistral", "cohere",
                          "ollama"}
    /\ value.text[2] = "/"

\* The model the hierarchy gives an agent: the first configured source
\* decides, and the default stands in when none is configured or the
\* deciding one has no known provider prefix.
Hierarchy(name) ==
    LET configured == {i \in 1..3 : SourcesOf(name)[i].kind \notin {"unset", "empty"}}
        first == CHOOSE i \in configured : \A j \in configured : i <= j
    IN  IF configured = {} THEN <<"opencode", "/", "kimi-k2.5-free">>
        ELSE IF KnownPrefix(SourcesOf(name)[first]) THEN SourcesOf(name)[first].text
        ELSE <<"opencode", "/", "kimi-k2.5-free">>

\* C23: the config hook registers every agent with the model of the first
\* configured source in the order config entry, agent variable, group
\* variable, default; the default replaces a deciding value without a known
\* provider prefix; so every registered model has a known provider prefix.
HierarchicalResolution ==
    [][\A name \in AgentNames :
          /\ inputAgent'[name].present
          /\ inputAgent'[name].model.kind = "string"
          /\ inputAgent'[name].model.text = Hierarchy(name)
          /\ KnownPrefix(inputAgent'[name].model)]_vars

\* C23 witness: an agent whose config entry names a model without a known
\* prefix, while both of its environment variables name valid models, is
\* registered with the default model.
HierarchicalResolutionWitness ==
    \E name \in AgentNames :
        /\ inputAgent[name].mode # "none"
        /\ inputAgent[name].model.text = <<"opencode", "/", "kimi-k2.5-free">>
        /\ env[SpecificVar(name)] = Str(<<"openai", "/", "gpt-4">>)
        /\ env[GroupVar(TypeOf(name))] = Str(<<"google", "/", "gemini">>)

\* C31: start(controller) ends once, by its close, and enqueues nothing
\* afterwards; and no close is attempted on an outbound stream the caller
\* has cancelled (such a close throws and rejects the promise of start).
CleanTermination ==
    [][/\ loop \in {"returned", "rejected"} => (loop' = loop /\ out' = out)
       /\ loop = "reading" /\ loop' # "reading" =>
             (ctrl # "cancelled" /\ loop' = "returned" /\ ctrl' \in {"closing", "closed"})]_vars

\* C32: the ids of any two translated responses of one process differ.
UniqueResponseIds ==
    \A i, j \in 1..Len(responseIds) : i # j => responseIds[i] # responseIds[j]

\* The blocks' contributions one after the other: a block's text, or the
\* embedded data of a block that has no text.
Concatenated(blocks) ==
    LET upTo[i \in 0..Len(blocks)] ==
            IF i = 0 THEN <<>>
            ELSE upTo[i - 1] \o (IF blocks[i].text # <<>> THEN blocks[i].text
                                 ELSE blocks[i].data)
    IN  upTo[Len(blocks)]

\* The messages of the translated request that stand for caller messages:
\* all but the system message put in front.
Translated ==
    IF openaiBody.messages # <<>> /\ openaiBody.messages[1].role = "system"
    THEN Tail(openaiBody.messages) ELSE openaiBody.messages

\* C33: a translated request has one message per caller message, in the
\* caller's order, each with the caller's string as it is or with the
\* concatenation, without separator, of the blocks' texts (the embedded data
\* for a block without text).
ContentFlattening ==
    (op = "request_done" /\ ~openaiBody.threw /\ anthropicBody.messages.kind = "list") =>
        /\ Len(Translated) = Len(anthropicBody.messages.items)
        /\ \A i \in 1..Len(Translated) :
              LET content == anthropicBody.messages.items[i].content
              IN  /\ content.kind = "string" => Translated[i].content = content.text
                  /\ content.kind = "blocks" =>
                        Translated[i].content = Concatenated(content.blocks)

\* C33 witness: a request of two messages has been translated, the first a
\* text block followed by a data block, the second a plain string.
ContentFlatteningWitness ==
    /\ op = "request_done"
    /\ ~openaiBody.threw
    /\ anthropicBody.messages.kind = "list"
    /\ Len(anthropicBody.messages.items) = 2
    /\ anthropicBody.messages.items[1].content =
          Content("blocks", <<>>, <<Block(<<"He">>, <<>>), Block(<<>>, <<"_world">>)>>)
    /\ anthropicBody.messages.items[2].content = StringContent(<<"llo">>)
    /\ Translated[1].content = <<"He", "_world">>
    /\ Translated[2].content = <<"llo">>

\* C34: for an enforced agent, a granted stop.requested and every
\* session.end leave no entry for the session in the store, and a denied
\* stop.requested leaves the session's entry as it was.
StoreLifecycle ==
    [][hook'.agent \in {"ultraplan", "strategos"} =>
          /\ (hook'.name = "stop.requested" /\ ~output'.continue) => ~store'[HookKey].present
          /\ hook'.name = "session.end" => ~store'[HookKey].present
          /\ (hook'.name = "stop.requested" /\ output'.continue) =>
                store'[HookKey] = store[HookKey]]_vars

\* C34 witness: a stop request of an enforced session has been granted and
\* the session has no entry, while the other session's list is still stored.
StoreLifecycleWitness ==
    /\ hook.name = "stop.requested"
    /\ hook.agent \in {"ultraplan", "strategos"}
    /\ ~output.continue
    /\ ~store[SessionKey(hook.session)].present
    /\ \E k \in Keys : store[k].present /\ Len(store[k].todos) = 2

\* The todos the store holds for a session key: none when it has no entry.
StoredTodos(st, k) == IF st[k].present THEN st[k].todos ELSE <<>>

\* C35: after a message.completed event of an enforced session the store
\* holds for the session exactly the todos extracted from that message,
\* whatever it held before.
LatestMessageDecides ==
    [][\A a \in {"ultraplan", "strategos"}, session \in Sessions, todos \in TodoLists :
          MessageCompleted(a, session, todos) =>
              StoredTodos(store', SessionKey(IdOf(session))) = todos]_vars

\* The key under which the todos of a session are looked up.
KeyOfSession(session) == IF session = "A" THEN "s1" ELSE "default"

\* C36: an event of one session leaves what the store holds for every other
\* session as it was, unless that entry is more than 24 hours old and is
\* dropped.
SessionIsolation ==
    [][hook'.name \in {"message.completed", "stop.requested", "session.start",
                       "session.end"} =>
          \A other \in {"A", "B", "C"} \ {hook'.origin} :
              \/ store'[KeyOfSession(other)] = store[KeyOfSession(other)]
              \/ /\ store[KeyOfSession(other)].present
                 /\ now - store[KeyOfSession(other)].lastUpdated > 24
                 /\ ~store'[KeyOfSession(other)].present]_vars

\* An entry of the store that was updated more than 24 hours before t.
Stale(entry, t) == entry.present /\ t - entry.lastUpdated > 24

\* C37: after a step that calls set() (a message.completed with todos, of an
\* enforced agent) or cleanup() (a session.start of an enforced agent) no
\* entry is more than 24 hours old, and the step has removed or changed no
\* entry of the last 24 hours but the one being set; and no stop request is
\* denied on an entry more than 24 hours old.
SessionExpiry ==
    [][/\ \A a \in {"ultraplan", "strategos"}, session \in Sessions :
             (\/ SessionStart(a, session)
              \/ \E todos \in TodoLists \ {<<>>} : MessageCompleted(a, session, todos)) =>
                 \A k \in Keys :
                     /\ ~Stale(store'[k], now)
                     /\ (~Stale(store[k], now) /\ store'[k] # store[k]) =>
                           (hook'.name = "message.completed" /\ k = KeyOfSession(session))
       /\ (hook'.name = "stop.requested" /\ output'.continue) =>
             ~Stale(store[HookKey], now)]_vars

\* How many times the Next Step hint stands in a content.
HintCount(content) == Cardinality({i \in 1..Len(content) : content[i] = "Next Step"})

\* C38: a message.updated event that follows another one of the same
\* message leaves the content as it is, no content holds the hint twice, and
\* the content of an agent other than enhancer, ultraplan, ask and strategos
\* is never changed.
HintAppendedOnce ==
    [][/\ sessionMessage.updates >= 1 => sessionMessage'.content = sessionMessage.content
       /\ HintCount(sessionMessage'.content) <= 1
       /\ sessionMessage.agent \notin {"enhancer", "ultraplan", "ask", "strategos"} =>
             sessionMessage'.content = sessionMessage.content]_vars

====
